---------------------------- MODULE Spec2Model ----------------------------
(***************************************************************************)
(* Symbolic-explanation pipeline of automl/symbolic-explanations:          *)
(*   utils/utils.py            convert_symb (expression normalizer)        *)
(*   utils/symb_reg_utils.py   exp (clipped exponential)                   *)
(*   utils/symb_reg_utils.py   get_function_set                            *)
(*   utils/utils.py            get_scores                                  *)
(*   run_symbolic_explanation.py   the sweep writing the complexity table  *)
(*   plot_complexity_vs_rmse.py    the aggregation and the elbow selection *)
(*   run_2d_error_plot.py          the accumulation of the error surfaces  *)
(*   utils/utils.py            get_hpo_test_data                           *)
(*                                                                         *)
(* Floating-point literals are fixed-point integers counted in             *)
(* 1/Unit = 10^-4; an arithmetic result is rounded to that grid the way a  *)
(* float operation rounds to its mantissa.  Symbol names and the texts of  *)
(* programs are kept character by character, so that stripping brackets    *)
(* and measuring a length are computed, not assumed.                       *)
(***************************************************************************)
EXTENDS Integers, Sequences, FiniteSets, TLC

VARIABLES
    symb,         \* the fitted model handed to convert_symb
    n_dim,        \* argument n_dim      (<<>> is None, <<k>> is k)
    n_decimals,   \* argument n_decimals (<<>> is None, <<k>> is k)
    ret,          \* what the last call returned or raised
    steps,        \* the intermediate values of the last convert_symb call
    again,        \* the rounding loop applied once more to a returned tree
    x_in,         \* exp: the input array
    x_out,        \* exp: the returned array
    pc,           \* sweep: the loop the script is in
    env,          \* sweep: the sample files and what the regressor fits
    i_n,          \* sweep: index of n_samples in N_SAMPLES_SPACING
    i_seed,       \* sweep: index of sampling_seed in sampling_seeds
    i_symb,       \* sweep: i of "for i in range(n_seeds)"
    df_all_metrics,     \* sweep: metrics table
    df_all_expr,        \* sweep: expression table
    df_all_complexity,  \* sweep: complexity table
    csv,          \* sweep: the three files written by to_csv
    function_set, \* what get_function_set returned
    applied,      \* an operator of function_set applied to an array
    df_joined_all,  \* elbow: the points, in iteration order
    elbow,        \* elbow: the locals of the selection and what it drew
    scores_in,    \* get_scores: the four arrays handed in
    df_scores,    \* get_scores: the returned table
    csv_in,       \* aggregation: the tables read for each parsimony value
    i_pars,       \* aggregation: index of the parsimony value in its list
    held,         \* a fitted model a caller keeps over several conversions
    calls,        \* the conversions of held made so far, with their results
    n_seeds_total,  \* error plot: units processed
    error_test,   \* error plot: the accumulated error of each key
    unit_errors,  \* error plot: the absolute errors of the units so far
    hpo_in,       \* get_hpo_test_data: the optimized parameters
    hpo_out       \* get_hpo_test_data: what the call returned or raised

vars == <<symb, n_dim, n_decimals, ret, steps, again, x_in, x_out,
          pc, env, i_n, i_seed, i_symb,
          df_all_metrics, df_all_expr, df_all_complexity, csv,
          function_set, applied, df_joined_all, elbow, scores_in, df_scores,
          csv_in, i_pars, held, calls, n_seeds_total, error_test, unit_errors,
          hpo_in, hpo_out>>

convVars == <<symb, n_dim, n_decimals, ret, steps, again>>
expVars == <<x_in, x_out>>
sweepVars == <<pc, env, i_n, i_seed, i_symb,
               df_all_metrics, df_all_expr, df_all_complexity, csv>>
fsVars == <<function_set, applied>>
elbowVars == <<df_joined_all, elbow>>
scoreVars == <<scores_in, df_scores>>
aggVars == <<csv_in, i_pars>>
repeatVars == <<held, calls>>
plotVars == <<n_seeds_total, error_test, unit_errors>>
hpoVars == <<hpo_in, hpo_out>>
laterVars == <<aggVars, repeatVars, plotVars, hpoVars>>
otherVars == <<fsVars, elbowVars, scoreVars, laterVars>>

-----------------------------------------------------------------------------
(* Numbers *)

\* Number of decimals of the fixed-point grid the Float literals live on.
GridDecimals == 4

RECURSIVE Pow10(_)
Pow10(k) == IF k <= 0 THEN 1 ELSE 10 * Pow10(k - 1)

Unit == Pow10(GridDecimals)

AbsInt(i) == IF i < 0 THEN -i ELSE i

\* p / d (d > 0) rounded to the nearest integer, ties to even.
RoundDiv(p, d) ==
    LET q == p \div d
        r == p % d
    IN  IF 2 * r < d THEN q
        ELSE IF 2 * r > d THEN q + 1
        ELSE IF q % 2 = 0 THEN q ELSE q + 1

\* round(a, n) of a Float: the value rounded to n decimals, ties to even
\* (sympy Expr.round, reached through Python's round()).
RoundTruncPlusStep(v, n) ==
    IF n >= GridDecimals THEN v
    ELSE (v \div Pow10(GridDecimals - n)) * Pow10(GridDecimals - n) + Pow10(GridDecimals - n)
round(v, n) ==
    IF n >= GridDecimals THEN v
    ELSE RoundDiv(v, Pow10(GridDecimals - n)) * Pow10(GridDecimals - n)

RECURSIVE ISqrt(_)
ISqrt(m) ==
    IF m < 2 THEN m
    ELSE LET s == 2 * ISqrt(m \div 4)
         IN  IF (s + 1) * (s + 1) <= m THEN s + 1 ELSE s

-----------------------------------------------------------------------------
(* Expression trees.  Every node has the same four fields. *)

Node(o, as) == [op |-> o, name |-> <<>>, v |-> 0, args |-> as]
Symbol(nm)  == [op |-> "sym", name |-> nm, v |-> 0, args |-> <<>>]
Float(val)  == [op |-> "float", name |-> <<>>, v |-> val, args |-> <<>>]
Integer(i)  == [op |-> "int", name |-> <<>>, v |-> i, args |-> <<>>]
Zoo         == Node("zoo", <<>>)   \* complex infinity, 1/0
NaN         == Node("nan", <<>>)
ImagUnit    == Node("I", <<>>)
NoTree      == Node("none", <<>>)

IsNum(t) == t.op \in {"float", "int"}
IsZero(t) == IsNum(t) /\ t.v = 0

NumAdd(a, b) ==
    IF a.op = "int" /\ b.op = "int" THEN Integer(a.v + b.v)
    ELSE Float((IF a.op = "int" THEN a.v * Unit ELSE a.v)
               + (IF b.op = "int" THEN b.v * Unit ELSE b.v))

NumMul(a, b) ==
    IF a.op = "int" /\ b.op = "int" THEN Integer(a.v * b.v)
    ELSE IF a.op = "int" THEN Float(a.v * b.v)
    ELSE IF b.op = "int" THEN Float(a.v * b.v)
    ELSE Float(RoundDiv(a.v * b.v, Unit))

RECURSIVE NumPow(_, _)
NumPow(b, e) ==
    IF e = 0 THEN Integer(1)
    ELSE IF e > 0 THEN NumMul(b, NumPow(b, e - 1))
    ELSE LET d == NumPow(b, -e)
         IN  IF d.v = 0 THEN Zoo
             ELSE IF d.v > 0 THEN Float(RoundDiv(Unit * Unit, d.v))
             ELSE Float(-RoundDiv(Unit * Unit, -d.v))

-----------------------------------------------------------------------------
(* The algebra engine's constructors.  sympify, simplify and subs all build  *)
(* their result through Add, Mul, Pow and function application, which        *)
(* evaluate automatically: numbers fold, a zero coefficient annihilates a    *)
(* product, a numeric coefficient distributes over a sum, like terms merge,  *)
(* and a function of a Float is evaluated numerically.                       *)

RECURSIVE Add(_, _), Mul(_, _), Pow(_, _)

Add(a, b) ==
    IF IsNum(a) /\ IsNum(b) THEN NumAdd(a, b)
    ELSE IF a.op = "nan" \/ b.op = "nan" THEN NaN
    ELSE IF IsNum(b) THEN Add(b, a)
    ELSE IF a = Integer(0) THEN b
    ELSE IF IsNum(a) /\ b.op = "add" /\ IsNum(b.args[1])
        THEN Add(NumAdd(a, b.args[1]), b.args[2])
    ELSE IF a = b THEN Mul(Integer(2), a)
    ELSE IF b = Mul(Integer(-1), a) THEN Integer(0)
    ELSE Node("add", <<a, b>>)

Mul(a, b) ==
    IF IsNum(a) /\ IsNum(b) THEN NumMul(a, b)
    ELSE IF a.op = "nan" \/ b.op = "nan" THEN NaN
    ELSE IF IsNum(b) THEN Mul(b, a)
    ELSE IF IsZero(a) THEN (IF b.op = "zoo" THEN NaN ELSE a)
    ELSE IF a = Integer(1) THEN b
    ELSE IF IsNum(a) /\ b.op = "mul" /\ IsNum(b.args[1])
        THEN Mul(NumMul(a, b.args[1]), b.args[2])
    ELSE IF IsNum(a) /\ b.op = "add"
        THEN Add(Mul(a, b.args[1]), Mul(a, b.args[2]))
    ELSE IF a = b THEN Pow(a, Integer(2))
    ELSE IF b = Pow(a, Integer(-1)) \/ a = Pow(b, Integer(-1)) THEN Integer(1)
    ELSE Node("mul", <<a, b>>)

Pow(b, e) ==
    IF b.op = "nan" \/ e.op = "nan" THEN NaN
    ELSE IF e = Integer(0) THEN Integer(1)
    ELSE IF e = Integer(1) THEN b
    ELSE IF b.op = "float" /\ e.op = "int" THEN NumPow(b, e.v)
    ELSE IF b.op = "int" /\ e.op = "int" /\ e.v > 0 THEN NumPow(b, e.v)
    ELSE IF b.op = "pow" /\ e.op = "int" /\ b.args[2].op = "int"
        THEN Pow(b.args[1], Integer(b.args[2].v * e.v))
    ELSE Node("pow", <<b, e>>)

\* sqrt(a) and Abs(a)
Apply(f, a) ==
    IF a.op = "nan" THEN NaN
    ELSE IF f = "sqrt" /\ a.op = "float"
        THEN IF a.v >= 0 THEN Float(ISqrt(a.v * Unit))
             ELSE Mul(Float(ISqrt((-a.v) * Unit)), ImagUnit)
    ELSE IF f = "abs" /\ IsNum(a)
        THEN [a EXCEPT !.v = AbsInt(a.v)]
    ELSE IF f = "abs" /\ a.op = "abs" THEN a
    ELSE Node(f, <<a>>)

\* self.func(*args): the node rebuilt over new arguments, evaluated.
Rebuild(t, as) ==
    IF t.op = "add" THEN Add(as[1], as[2])
    ELSE IF t.op = "mul" THEN Mul(as[1], as[2])
    ELSE IF t.op = "pow" THEN Pow(as[1], as[2])
    ELSE IF Len(as) = 1 THEN Apply(t.op, as[1])
    ELSE t

\* expr.subs(old, new): every subtree equal to old replaced by new, every
\* node above a replacement rebuilt (and so re-evaluated).
RECURSIVE subs(_, _, _)
subs(t, old, new) ==
    IF t = old THEN new
    ELSE IF Len(t.args) = 0 THEN t
    ELSE LET as == [i \in 1..Len(t.args) |-> subs(t.args[i], old, new)]
         IN  IF as = t.args THEN t ELSE Rebuild(t, as)

\* sympy.preorder_traversal(expr), as the sequence of nodes it yields.
RECURSIVE preorder_traversal(_)
preorder_traversal(t) ==
    IF Len(t.args) = 0 THEN <<t>>
    ELSE IF Len(t.args) = 1 THEN <<t>> \o preorder_traversal(t.args[1])
    ELSE <<t>> \o preorder_traversal(t.args[1]) \o preorder_traversal(t.args[2])

Nodes(t) == {preorder_traversal(t)[i] : i \in 1..Len(preorder_traversal(t))}
FreeSymbols(t) == {a.name : a \in {b \in Nodes(t) : b.op = "sym"}}
Floats(t) == {a.v : a \in {b \in Nodes(t) : b.op = "float"}}

-----------------------------------------------------------------------------
(* Program texts.  A text is kept as its syntax tree in call syntax          *)
(* (add(X0, 0.150)): operator nodes named as in the text, symbol leaves      *)
(* named character by character, float leaves by value.                      *)

Digit(d) == <<"0", "1", "2", "3", "4", "5", "6", "7", "8", "9">>[d + 1]

RECURSIVE Str(_)
Str(n) == IF n < 10 THEN <<Digit(n)>> ELSE Str(n \div 10) \o <<Digit(n % 10)>>

X(i) == Symbol(<<"X">> \o Str(i))                    \* X0, X1
XBracketed(i) == Symbol(<<"X", "[">> \o Str(i) \o <<"]">>)   \* X[0], X[1]
P(i) == Symbol(<<"P">> \o Str(i))                    \* P1, P2
x == Symbol(<<"x">>)

SymbolicRegressor == "SymbolicRegressor"
SymbolicMetaModelWrapper == "SymbolicMetaModelWrapper"
SymbolicPursuitModelWrapper == "SymbolicPursuitModelWrapper"

\* Number of decimals a Float needs when printed in full (at least one).
RECURSIVE Decimals(_, _)
Decimals(v, k) ==
    IF k <= 1 THEN 1
    ELSE IF v % Pow10(GridDecimals - k + 1) = 0 THEN Decimals(v, k - 1)
    ELSE k

\* Characters of a float literal: "%.3f" in a gplearn program, the shortest
\* full rendering in the string of an expression object.
FloatChars(v, kind) ==
    (IF v < 0 THEN 1 ELSE 0) + Len(Str(AbsInt(v) \div Unit)) + 1
    + (IF kind = SymbolicRegressor THEN 3 ELSE Decimals(AbsInt(v), GridDecimals))

\* len(symb_str)
RECURSIVE len(_, _)
len(t, kind) ==
    IF t.op = "sym" THEN Len(t.name)
    ELSE IF t.op = "float" THEN FloatChars(t.v, kind)
    ELSE IF t.op = "int" THEN (IF t.v < 0 THEN 1 ELSE 0) + Len(Str(AbsInt(t.v)))
    ELSE IF Len(t.args) = 1
        THEN (IF t.op = "sqrt" THEN 4 ELSE 3) + 1 + len(t.args[1], kind) + 1
    ELSE 3 + 1 + len(t.args[1], kind) + 2 + len(t.args[2], kind) + 1

\* str(symb._program): gplearn prints every constant with "%.3f".
RECURSIVE StrProgram(_)
StrProgram(t) ==
    IF t.op = "float" THEN Float(round(t.v, 3))
    ELSE IF Len(t.args) = 0 THEN t
    ELSE [t EXCEPT !.args = [i \in 1..Len(t.args) |-> StrProgram(t.args[i])]]

\* symb_str.replace("[", "").replace("]", "")
RECURSIVE StripBrackets(_)
StripBrackets(t) ==
    IF t.op = "sym" THEN [t EXCEPT !.name = SelectSeq(t.name, LAMBDA c : c \notin {"[", "]"})]
    ELSE IF Len(t.args) = 0 THEN t
    ELSE [t EXCEPT !.args = [i \in 1..Len(t.args) |-> StripBrackets(t.args[i])]]


\* sympy.sympify(text, locals=converter): the text evaluated with
\*   sub(x, y) = x - y, div(x, y) = x / y, mul(x, y) = x * y,
\*   add(x, y) = x + y, neg(x) = -x, pow(x, y) = x ** y,
\* every other name being a symbol or a function of the engine.
RECURSIVE sympify(_)
sympify(t) ==
    IF Len(t.args) = 0 THEN t
    ELSE IF Len(t.args) = 1 THEN
        IF t.op = "neg" THEN Mul(Integer(-1), sympify(t.args[1]))
        ELSE Apply(t.op, sympify(t.args[1]))
    ELSE LET a == sympify(t.args[1])
             b == sympify(t.args[2])
         IN  IF t.op = "sub" THEN Add(a, Mul(Integer(-1), b))
             ELSE IF t.op = "div" THEN Mul(a, Pow(b, Integer(-1)))
             ELSE IF t.op = "mul" THEN Mul(a, b)
             ELSE IF t.op = "add" THEN Add(a, b)
             ELSE Pow(a, b)

\* sympy.simplify: beyond what the constructors do by themselves, terms with
\* the same non-numeric part are collected and sqrt(u)**2 becomes u.
Coeff(t) == IF t.op = "mul" /\ IsNum(t.args[1]) THEN t.args[1] ELSE Integer(1)
Term(t) == IF t.op = "mul" /\ IsNum(t.args[1]) THEN t.args[2] ELSE t

Collect(t) ==
    IF t.op = "add" /\ ~IsNum(t.args[1]) /\ Term(t.args[1]) = Term(t.args[2])
        THEN Mul(NumAdd(Coeff(t.args[1]), Coeff(t.args[2])), Term(t.args[1]))
    ELSE IF t.op = "pow" /\ t.args[1].op = "sqrt" /\ t.args[2] = Integer(2)
        THEN t.args[1].args[1]
    ELSE t

RECURSIVE simplify(_)
simplify(t) ==
    IF Len(t.args) = 0 THEN t
    ELSE Collect(Rebuild(t, [i \in 1..Len(t.args) |-> simplify(t.args[i])]))

-----------------------------------------------------------------------------
(* convert_symb *)

None == <<>>
Some(k) == <<k>>

\* Python truthiness of an optional integer: None and 0 are false.
IsNotNone(opt) == opt # None
Truthy(opt) == opt # None /\ opt[1] # 0

\* isinstance dispatch of lines 63-70.
IsAnyModel(s) == TRUE
IsKnownModel(s) ==
    s.kind \in {SymbolicRegressor, SymbolicMetaModelWrapper, SymbolicPursuitModelWrapper}

\* symb_str of lines 63-68.
symb_str(s) ==
    IF s.kind = SymbolicRegressor THEN StrProgram(s.program) ELSE s.program

\* The length threshold of line 81.
MaxLength == 500

TooLongInclusive(s) == len(symb_str(s), s.kind) >= MaxLength
TooLong(s) == len(symb_str(s), s.kind) > MaxLength

\* Lines 87-89.
ParseAndSimplify(s) == simplify(sympify(StripBrackets(symb_str(s))))

\* Lines 90-92.
RenameAlways(e, nd) == subs(e, X(0), x)
Rename(e, nd) == IF nd = Some(1) THEN subs(e, X(0), x) ELSE e

\* Lines 96-98 for one projection p, number i (from 0): every node of the
\* tree as it is when the traversal starts is visited, and each visit of the
\* symbol P<i+1> substitutes it in the current tree.
RECURSIVE SubstituteVisits(_, _, _, _, _)
SubstituteVisits(e, visit, k, i, p) ==
    IF k > Len(visit) THEN e
    ELSE IF visit[k].op = "sym" /\ visit[k].name = <<"P">> \o Str(i + 1)
        THEN SubstituteVisits(subs(e, visit[k], p), visit, k + 1, i, p)
    ELSE SubstituteVisits(e, visit, k + 1, i, p)

\* Lines 95-98: enumerate(proj).
RECURSIVE SubstituteFrom(_, _, _)
SubstituteFrom(e, proj, i) ==
    IF i >= Len(proj) THEN e
    ELSE SubstituteFrom(
            SubstituteVisits(e, preorder_traversal(e), 1, i, proj[i + 1]),
            proj, i + 1)

\* Lines 93-98.
BackSubstituteFirstOnly(e, s) ==
    IF s.kind = SymbolicPursuitModelWrapper /\ Len(s.projections) > 0
        THEN SubstituteVisits(e, preorder_traversal(e), 1, 0, s.projections[1])
    ELSE e
BackSubstitute(e, s) ==
    IF s.kind = SymbolicPursuitModelWrapper
        THEN SubstituteFrom(e, s.projections, 0)
    ELSE e

\* Lines 101-103: the traversal runs over the tree as it is before the loop.
RECURSIVE RoundVisits(_, _, _, _)
RoundVisits(e, visit, k, n) ==
    IF k > Len(visit) THEN e
    ELSE IF visit[k].op = "float"
        THEN RoundVisits(subs(e, visit[k], Float(round(visit[k].v, n))), visit, k + 1, n)
    ELSE RoundVisits(e, visit, k + 1, n)

RoundLoop(e, n) == RoundVisits(e, preorder_traversal(e), 1, n)

\* Lines 99-103.
RoundFloats(e, nd) == IF Truthy(nd) THEN RoundLoop(e, nd[1]) ELSE e

Raised(msg) ==
    [tag |-> "raise", text |-> NoTree, expr |-> NoTree, msg |-> msg]
ReturnedText(t) ==
    [tag |-> "text", text |-> t, expr |-> NoTree, msg |-> ""]
ReturnedExpr(e) ==
    [tag |-> "expr", text |-> NoTree, expr |-> e, msg |-> ""]
NoReturn ==
    [tag |-> "none", text |-> NoTree, expr |-> NoTree, msg |-> ""]

NoSteps ==
    [guard |-> FALSE, parsed |-> FALSE,
     simplified |-> NoTree, renamed |-> NoTree, substituted |-> NoTree]

\* The values convert_symb computes on its way, lines 63-105.
Steps(s, nd, ndec) ==
    IF ~IsKnownModel(s) THEN NoSteps
    ELSE IF TooLong(s) THEN [NoSteps EXCEPT !.guard = TRUE]
    ELSE LET simplified == ParseAndSimplify(s)
             renamed == Rename(simplified, nd)
         IN  [guard |-> TRUE, parsed |-> TRUE,
              simplified |-> simplified,
              renamed |-> renamed,
              substituted |-> BackSubstitute(renamed, s)]

convert_symb(s, nd, ndec) ==
    IF ~IsKnownModel(s) THEN Raised("Unknown symbolic model")
    ELSE IF TooLong(s) THEN ReturnedText(symb_str(s))
    ELSE ReturnedExpr(RoundFloats(Steps(s, nd, ndec).substituted, ndec))

-----------------------------------------------------------------------------
(* The fitted models convert_symb is called with *)

\* Depth of the longest chain in a program; the long programs built on a
\* chain of this depth are longer than MaxLength characters.
MaxDepth == 8
\* Largest number of projections of a pursuit model.
MaxProjections == 2

BinOps == {"add", "sub", "mul", "div"}
UnOps == {"neg", "sqrt", "abs"}

\* The programs of depth at most one over the leaves L.
Shallow(L) ==
    L \cup {Node(o, <<a, b>>) : o \in BinOps, a \in L, b \in L}
      \cup {Node(o, <<a>>) : o \in UnOps, a \in L}

\* c + k*v, alone, under a unary operator, and as a factor.
Affine(C, K, V) ==
    LET A == {Node("add", <<c, Node("mul", <<k, v>>)>>) : c \in C, k \in K, v \in V}
    IN  A \cup {Node(o, <<a>>) : o \in UnOps, a \in A}
          \cup {Node("mul", <<v, a>>) : v \in V, a \in A}

\* add(X0, add(X0, ... leaf)), n levels deep: 9 characters a level.
RECURSIVE Chain(_, _)
Chain(n, leaf) == IF n = 0 THEN leaf ELSE Node("add", <<X(0), Chain(n - 1, leaf)>>)

\* The full binary tree of add over X0, d levels deep.
RECURSIVE Full(_)
Full(d) == IF d = 0 THEN X(0) ELSE Node("add", <<Full(d - 1), Full(d - 1)>>)

\* Programs of 486 + 9*(n - 6) + len(leaf) characters, n <= MaxDepth.
LongPrograms(L) ==
    {Node("add", <<Full(5), Node("add", <<Full(4), Chain(n, l)>>)>>) :
        n \in (MaxDepth - 2)..MaxDepth, l \in L}

Model(k, prog, proj) == [kind |-> k, program |-> prog, projections |-> proj]

\* gplearn programs: constants are raw floats, variables are X0, X1.
GPLeaves == {X(0), X(1), Float(1500), Float(12345), Float(-5000)}
GPPrograms ==
    Shallow(GPLeaves)
    \cup Affine({Float(1500), Float(-5000)},
                {Node("mul", <<Float(200), Float(150)>>), Float(12345)},
                {X(0), X(1)})
    \cup LongPrograms({X(1), Float(1500), Float(-5000)})

\* Expression objects of the meta model, printed in full precision; an
\* indexed variable prints with brackets.
MetaLeaves == {X(0), XBracketed(0), XBracketed(1), Float(12345), Float(-5000)}
MetaPrograms ==
    Shallow(MetaLeaves)
    \cup Affine({Float(1500), Float(-5000)}, {Float(3), Float(12345)},
                {X(0), XBracketed(1)})
    \cup {Node("pow", <<v, Integer(2)>>) : v \in {X(0), Float(1500), Node("sqrt", <<X(1)>>)}}
    \cup LongPrograms({XBracketed(0), Float(12345), Float(-5000)})

\* Pursuit models: an expression over P1..Pk and, for each Pi, its ridge
\* function, an expression object over the input variables.
Projections == {Add(Float(1500), Mul(Float(12345), X(0))), Mul(Float(3), X(1))}
PursuitLeaves(k) == {P(i) : i \in 1..k} \cup {Float(12345)}
PursuitPrograms(k) ==
    Shallow(PursuitLeaves(k)) \cup LongPrograms({P(k), Float(12345)})

\* Expression objects print every function they hold by its name, also one
\* that is none of the operators of the converter and of get_function_set.
ForeignPrograms == {Node("foo", <<l>>) : l \in {X(0), XBracketed(1), Float(12345)}}

Models ==
    {Model(SymbolicRegressor, g, <<>>) : g \in GPPrograms}
    \cup {Model(SymbolicMetaModelWrapper, m, <<>>) : m \in MetaPrograms \cup ForeignPrograms}
    \cup UNION {{Model(SymbolicPursuitModelWrapper, e, pr) :
                    e \in PursuitPrograms(k), pr \in [1..k -> Projections]} :
                k \in 1..MaxProjections}
    \cup {Model("LinearRegression", g, <<>>) :
            g \in {X(0), Float(12345)} \cup LongPrograms({X(1)})}

NoModel == Model("", NoTree, <<>>)

Dims == {None, Some(1), Some(2)}
DecimalsArgs == {None, Some(0), Some(1), Some(3)}

-----------------------------------------------------------------------------
(* Calls of convert_symb *)

ConvInit ==
    /\ symb = NoModel
    /\ n_dim = None
    /\ n_decimals = None
    /\ ret = NoReturn
    /\ steps = NoSteps
    /\ again = NoTree

ExpIdle == x_in = <<>> /\ x_out = [called |-> FALSE, a |-> <<>>, warnings |-> {}]
NotApplied == [called |-> FALSE, i |-> 0, x |-> <<>>, out |-> <<>>]
FsIdle == function_set = <<>> /\ applied = NotApplied
NoElbow ==
    [tag |-> "none", x_lower_right |-> <<>>, x_upper_left |-> <<>>,
     y_lower_right |-> <<>>, y_upper_left |-> <<>>, slope |-> <<>>,
     selected_point |-> <<>>, red |-> <<>>, marker |-> <<>>, orange |-> <<>>]
ElbowIdle == df_joined_all = <<>> /\ elbow = NoElbow
NoScores == [tag |-> "none", columns |-> <<>>, row |-> <<>>, msg |-> ""]
ScoresIdle == scores_in = <<>> /\ df_scores = NoScores
AggIdle == csv_in = <<>> /\ i_pars = 0
PlotIdle == n_seeds_total = 0 /\ error_test = <<>> /\ unit_errors = <<>>
NoHpo ==
    [tag |-> "none", X_test |-> <<>>, y_test |-> <<>>, trained |-> 0,
     printed |-> <<>>, msg |-> ""]
HpoIdle == hpo_in = <<>> /\ hpo_out = NoHpo
RepeatIdle == held = NoModel /\ calls = <<>>
LaterIdle == AggIdle /\ RepeatIdle /\ PlotIdle /\ HpoIdle
OtherIdle == FsIdle /\ ElbowIdle /\ ScoresIdle /\ LaterIdle
NoFiles == [error_metrics |-> <<>>, complexity |-> <<>>, expressions |-> <<>>]
SweepIdle ==
    /\ pc = "idle"
    /\ env = [rows |-> <<>>, fit |-> <<>>]
    /\ i_n = 0
    /\ i_seed = 0
    /\ i_symb = 0
    /\ df_all_metrics = <<>>
    /\ df_all_expr = <<>>
    /\ df_all_complexity = <<>>
    /\ csv = NoFiles

\* One call convert_symb(s, nd, ndec) by a plotting or reporting caller.
Call_convert_symb ==
    \E s \in Models, nd \in Dims, ndec \in DecimalsArgs :
        /\ ret.tag = "none"
        /\ symb' = s
        /\ n_dim' = nd
        /\ n_decimals' = ndec
        /\ ret' = convert_symb(s, nd, ndec)
        /\ steps' = Steps(s, nd, ndec)
        /\ again' = NoTree
        /\ UNCHANGED <<otherVars, expVars, sweepVars>>

\* The rounding loop of lines 101-103 run once more over a returned tree.
RoundAgain ==
    /\ ret.tag = "expr"
    /\ n_decimals # None
    /\ again = NoTree
    /\ again' = RoundLoop(ret.expr, n_decimals[1])
    /\ UNCHANGED <<otherVars, symb, n_dim, n_decimals, ret, steps, expVars, sweepVars>>

\* The caller is done with the result; the next call starts afresh.
Return ==
    /\ ret.tag # "none"
    /\ symb' = NoModel
    /\ n_dim' = None
    /\ n_decimals' = None
    /\ ret' = NoReturn
    /\ steps' = NoSteps
    /\ again' = NoTree
    /\ UNCHANGED <<otherVars, expVars, sweepVars>>

NextConvert == Call_convert_symb \/ RoundAgain \/ Return

InitConvert == ConvInit /\ ExpIdle /\ SweepIdle /\ OtherIdle

SpecConvert == InitConvert /\ [][NextConvert]_vars

-----------------------------------------------------------------------------
(* Properties of convert_symb, checked under SpecConvert *)

Returned == ret.tag # "none"
Supported ==
    symb.kind \in {"SymbolicRegressor", "SymbolicMetaModelWrapper",
                   "SymbolicPursuitModelWrapper"}
TextLength == len(symb_str(symb), symb.kind)
XNames == {<<"X", "0">>, <<"X", "1">>}
PNames == {<<"P">> \o Str(i) : i \in 1..(MaxProjections + 1)}

\* C1: a supported model whose text is longer than 500 characters gets its
\* raw text back, unchanged and unparsed, whatever n_dim and n_decimals are,
\* and nothing is raised; a text of 500 characters or fewer is parsed and
\* simplified and an expression tree is returned.
C1_LengthGuard ==
    (Returned /\ Supported) =>
        IF TextLength > 500
        THEN /\ ret = ReturnedText(symb_str(symb))
             /\ ~steps.parsed
        ELSE /\ ret.tag = "expr"
             /\ steps.parsed
             /\ steps.simplified = simplify(sympify(StripBrackets(symb_str(symb))))

\* A degraded result that still carries its brackets, for n_dim = 1 and
\* n_decimals = 3.
C1_Witness ==
    /\ ret.tag = "text"
    /\ TextLength > 500
    /\ XBracketed(0) \in Nodes(ret.text)
    /\ n_dim = Some(1)
    /\ n_decimals = Some(3)

\* A text of exactly 500 characters goes through parse and simplify.
C1_WitnessAtThreshold == ret.tag = "expr" /\ TextLength = 500 /\ steps.parsed

\* C3: a model of no supported kind makes convert_symb raise the
\* unknown-model error, whatever the length of its program, before the
\* length guard and the parser are reached, and nothing is returned.
C3_UnknownModelRaises ==
    (Returned /\ ~Supported) =>
        /\ ret = Raised("Unknown symbolic model")
        /\ ~steps.guard
        /\ ~steps.parsed

\* An unsupported model whose program prints in more than 500 characters.
C3_Witness ==
    /\ ret.tag = "raise"
    /\ symb.kind = "LinearRegression"
    /\ len(symb.program, symb.kind) > 500

\* The operators of the converter (lines 72-79) and of the function set.
GrammarOps ==
    {"add", "sub", "mul", "div", "neg", "pow", "sqrt", "log", "sin", "cos", "abs", "exp"}
HasForeignIdentifier(t) ==
    \E nd \in Nodes(t) : Len(nd.args) > 0 /\ nd.op \notin GrammarOps

\* C20: a program text holding an identifier outside the fixed operators,
\* the variables and the numeric literals is rejected: convert_symb raises
\* and returns no tree built from it.
C20_ForeignTextRejected ==
    (Returned /\ Supported /\ HasForeignIdentifier(symb.program)) => ret.tag = "raise"

\* What the code does for C20: sympify evaluates the text in sympy's whole
\* namespace, and the foreign function is part of the returned tree.
C20_ForeignTextEvaluated ==
    (Returned /\ Supported /\ HasForeignIdentifier(symb.program)) =>
        /\ ret.tag = "expr"
        /\ steps.parsed
        /\ HasForeignIdentifier(ret.expr)

\* C4: for n_dim = 1 a returned expression holds no symbol X0.
C4_NoX0WhenOneDim ==
    (ret.tag = "expr" /\ n_dim = Some(1)) => <<"X", "0">> \notin FreeSymbols(ret.expr)

\* What holds of the code for C4: the expression is free of X0 before the
\* projections are substituted.
C4_RenamedBeforeSubstitution ==
    (ret.tag = "expr" /\ n_dim = Some(1)) => <<"X", "0">> \notin FreeSymbols(steps.renamed)

\* C5: for n_dim other than 1 (2 or None) no variable is renamed: the
\* expression after the rename step is the simplified one, the result has no
\* symbol x and no symbol other than X0 and X1, and when nothing else is
\* substituted or rounded it is the simplified expression itself.
C5_NoRenameUnlessOneDim ==
    (ret.tag = "expr" /\ n_dim # Some(1)) =>
        /\ steps.renamed = steps.simplified
        /\ <<"x">> \notin FreeSymbols(ret.expr)
        /\ FreeSymbols(ret.expr) \subseteq XNames
        /\ (symb.kind # "SymbolicPursuitModelWrapper" /\ n_decimals = None)
                => ret.expr = steps.simplified

\* A two-dimensional expression returned with both X0 and X1 in it.
C5_Witness ==
    /\ ret.tag = "expr"
    /\ n_dim = Some(2)
    /\ n_decimals = Some(3)
    /\ FreeSymbols(ret.expr) = XNames
    /\ FreeSymbols(steps.simplified) = XNames

\* Every Pi replaced by the i-th projection, one index after the other.
RECURSIVE SubsInOrder(_, _, _)
SubsInOrder(e, proj, i) ==
    IF i > Len(proj) THEN e
    ELSE SubsInOrder(subs(e, P(i), proj[i]), proj, i + 1)

\* C6: for a pursuit model with k projections a returned expression holds
\* none of P1..Pk: each Pi is replaced everywhere by the i-th ridge function,
\* in index order, and the rounding loop runs over the substituted tree.
C6_ProjectionsSubstituted ==
    (ret.tag = "expr" /\ symb.kind = "SymbolicPursuitModelWrapper") =>
        /\ FreeSymbols(ret.expr) \cap PNames = {}
        /\ steps.substituted = SubsInOrder(steps.renamed, symb.projections, 1)
        /\ ret.expr = RoundFloats(steps.substituted, n_decimals)

\* Two projections, both used by the expression, one of them with a literal
\* that rounding to 3 decimals changes.
C6_Witness ==
    /\ ret.tag = "expr"
    /\ symb.kind = "SymbolicPursuitModelWrapper"
    /\ Len(symb.projections) = 2
    /\ {<<"P", "1">>, <<"P", "2">>} \subseteq FreeSymbols(steps.simplified)
    /\ symb.projections[1] # symb.projections[2]
    /\ n_decimals = Some(3)
    /\ 12345 \in Floats(steps.substituted)
    /\ 12340 \in Floats(ret.expr)

\* C7: with a positive n_decimals every Float of a returned tree equals its
\* own value rounded to n_decimals.
C7_AllFloatsRounded ==
    (ret.tag = "expr" /\ n_decimals # None /\ n_decimals # Some(0)) =>
        \A f \in Floats(ret.expr) : f % Pow10(GridDecimals - n_decimals[1]) = 0

\* C8: n_decimals = 0 rounds every Float of a returned tree to 0 decimals.
C8_ZeroDecimalsRounds ==
    (ret.tag = "expr" /\ n_decimals = Some(0)) =>
        \A f \in Floats(ret.expr) : f % Unit = 0

\* C9: the rounding loop leaves a tree alone whose Floats all have at most
\* n decimals already.
C9_RoundingIdempotent ==
    (/\ again # NoTree
     /\ \A f \in Floats(ret.expr) : f % Pow10(GridDecimals - n_decimals[1]) = 0)
        => again = ret.expr

\* A tree with a fractional Float that is already rounded to one decimal,
\* rounded to one decimal again.
C9_Witness ==
    /\ again # NoTree
    /\ n_decimals = Some(1)
    /\ \A f \in Floats(ret.expr) : f % Pow10(GridDecimals - 1) = 0
    /\ \E f \in Floats(ret.expr) : f % Unit # 0
    /\ FreeSymbols(ret.expr) # {}
    /\ again = ret.expr

-----------------------------------------------------------------------------
(* The sweep of run_symbolic_explanation.py, lines 135-232 *)

\* n_seeds of line 29.
n_seeds == 3

\* Largest number of rows a sampling seed has in the sample files (env.rows
\* gives each seed's number of rows, the same in every file).
MaxRows == 2

\* The sample sizes of the sweep (N_SAMPLES_SPACING, line 18, shortened) and
\* the seeds the sample files hold, in order of appearance.
N_SAMPLES_SPACING == <<1, 2>>
sampling_seeds == <<0, 1>>

\* What a fit can produce: a short program, one that prints in more than
\* MaxLength characters, and one on which sympify or simplify raises (the
\* engine's failure is given with the fit, not derived from the program).
FitKinds == {"short", "long", "pathological"}

fitted(k) ==
    IF k = "long"
        THEN Model(SymbolicRegressor,
                   Node("add", <<Full(5), Node("add", <<Full(4), Chain(8, X(1))>>)>>), <<>>)
    ELSE IF k = "pathological"
        THEN Model(SymbolicRegressor, Node("div", <<X(0), Node("sub", <<X(1), X(1)>>)>>), <<>>)
    ELSE Model(SymbolicRegressor,
               Node("add", <<Node("mul", <<Float(12345), X(0)>>), Node("sqrt", <<X(1)>>)>>), <<>>)

\* symb_model._program.length_: the number of nodes of the program.
RECURSIVE length_(_)
length_(t) ==
    IF Len(t.args) = 0 THEN 1
    ELSE IF Len(t.args) = 1 THEN 1 + length_(t.args[1])
    ELSE 1 + length_(t.args[1]) + length_(t.args[2])

\* The number of operations of an expression tree: one for each operator or
\* function node; a product by -1 inside a sum is the sum's subtraction.
RECURSIVE CountTree(_, _)
CountTree(t, inSum) ==
    IF Len(t.args) = 0 THEN 0
    ELSE IF Len(t.args) = 1 THEN 1 + CountTree(t.args[1], FALSE)
    ELSE (IF inSum /\ t.op = "mul" /\ t.args[1] = Integer(-1) THEN 0 ELSE 1)
         + CountTree(t.args[1], t.op = "add") + CountTree(t.args[2], t.op = "add")

\* sympy.count_ops(conv_expr), line 220.  A tree is counted; a string is
\* first sympified, without the converter, and then counted: every call in
\* the text is one function application.  The empty string does not
\* sympify, and count_ops raises.
count_ops(r) ==
    IF r.tag = "expr" THEN [raised |-> FALSE, ops |-> CountTree(r.expr, FALSE)]
    ELSE IF r.tag = "text" THEN [raised |-> FALSE, ops |-> CountTree(r.text, FALSE)]
    ELSE [raised |-> TRUE, ops |-> 0]

\* The empty string of line 210.
EmptyString == [tag |-> "empty", text |-> NoTree, expr |-> NoTree, msg |-> ""]

\* Lines 207-212: the engine fails on a pathological program, and the bare
\* except puts the empty string in place of the expression.
Converted ==
    [k \in FitKinds |->
        IF k = "pathological" THEN EmptyString
        ELSE convert_symb(fitted(k), Some(2), Some(3))]
conv_expr(k) == Converted[k]

Key(n, s, y) == [n_samples |-> n, sampling_seed |-> s, symb_seed |-> y]

SweepInit ==
    /\ pc = "for_n_samples"
    /\ env \in [rows : [1..Len(sampling_seeds) -> 0..MaxRows],
                fit : [0..(n_seeds - 1) -> FitKinds]]
    /\ i_n = 1
    /\ i_seed = 0
    /\ i_symb = 0
    /\ df_all_metrics = <<>>
    /\ df_all_expr = <<>>
    /\ df_all_complexity = <<>>
    /\ csv = NoFiles

n_samples == N_SAMPLES_SPACING[i_n]
sampling_seed == sampling_seeds[i_seed]
SeedWithoutStride == i_symb \div 2
symb_seed == i_symb * 3

\* Line 152: the next n_samples, its sample file read (lines 155-161).
ForNSamples ==
    /\ pc = "for_n_samples"
    /\ i_n <= Len(N_SAMPLES_SPACING)
    /\ i_seed' = 1
    /\ pc' = "for_sampling_seed"
    /\ UNCHANGED <<otherVars, convVars, expVars, env, i_n, i_symb, df_all_metrics, df_all_expr, df_all_complexity, csv>>

\* Line 152: the sample sizes are exhausted and the script ends.
SweepDone ==
    /\ pc = "for_n_samples"
    /\ i_n > Len(N_SAMPLES_SPACING)
    /\ pc' = "done"
    /\ UNCHANGED <<otherVars, convVars, expVars, env, i_n, i_seed, i_symb, df_all_metrics, df_all_expr, df_all_complexity, csv>>

\* Line 163: the sampling seeds of this n_samples are exhausted.
SeedsDone ==
    /\ pc = "for_sampling_seed"
    /\ i_seed > Len(sampling_seeds)
    /\ i_n' = i_n + 1
    /\ pc' = "for_n_samples"
    /\ UNCHANGED <<otherVars, convVars, expVars, env, i_seed, i_symb, df_all_metrics, df_all_expr, df_all_complexity, csv>>

\* Lines 164-174: fewer rows than n_samples: a warning, and break leaves the
\* loop over the sampling seeds.
Shortfall ==
    /\ pc = "for_sampling_seed"
    /\ i_seed <= Len(sampling_seeds)
    /\ env.rows[i_seed] < n_samples
    /\ i_n' = i_n + 1
    /\ pc' = "for_n_samples"
    /\ UNCHANGED <<otherVars, convVars, expVars, env, i_seed, i_symb, df_all_metrics, df_all_expr, df_all_complexity, csv>>

\* Lines 164-178: enough rows; the loop over the regression seeds starts.
EnoughSamples ==
    /\ pc = "for_sampling_seed"
    /\ i_seed <= Len(sampling_seeds)
    /\ env.rows[i_seed] >= n_samples
    /\ i_symb' = 0
    /\ pc' = "for_symb_seed"
    /\ UNCHANGED <<otherVars, convVars, expVars, env, i_n, i_seed, df_all_metrics, df_all_expr, df_all_complexity, csv>>

\* Line 179: range(n_seeds) is exhausted; on to the next sampling seed.
SymbSeedsDone ==
    /\ pc = "for_symb_seed"
    /\ i_symb >= n_seeds
    /\ i_seed' = i_seed + 1
    /\ pc' = "for_sampling_seed"
    /\ UNCHANGED <<otherVars, convVars, expVars, env, i_n, i_symb, df_all_metrics, df_all_expr, df_all_complexity, csv>>

MetricsRow == Key(n_samples, sampling_seed, symb_seed)
ExprRow == [key |-> Key(n_samples, sampling_seed, symb_seed), expr |-> conv_expr(env.fit[i_symb])]
ComplexityRow ==
    [key |-> Key(n_samples, sampling_seed, symb_seed),
     program_length_before_simplification |-> length_(fitted(env.fit[i_symb]).program),
     program_operations |-> count_ops(conv_expr(env.fit[i_symb])).ops]

\* A unit that appends to the three tables and leaves the files alone.
RunUnitWithoutWriting ==
    /\ pc = "for_symb_seed"
    /\ i_symb < n_seeds
    /\ ~count_ops(conv_expr(env.fit[i_symb])).raised
    /\ df_all_metrics' = Append(df_all_metrics, MetricsRow)
    /\ df_all_expr' = Append(df_all_expr, ExprRow)
    /\ df_all_complexity' = Append(df_all_complexity, ComplexityRow)
    /\ i_symb' = i_symb + 1
    /\ UNCHANGED <<otherVars, convVars, expVars, env, i_n, i_seed, pc, csv>>

\* Lines 180-232, one regression seed: fit, score, convert, count, append to
\* the three tables and write the three files.
RunUnit ==
    /\ pc = "for_symb_seed"
    /\ i_symb < n_seeds
    /\ ~count_ops(conv_expr(env.fit[i_symb])).raised
    /\ df_all_metrics' = Append(df_all_metrics, MetricsRow)
    /\ df_all_expr' = Append(df_all_expr, ExprRow)
    /\ df_all_complexity' = Append(df_all_complexity, ComplexityRow)
    /\ csv' = [error_metrics |-> df_all_metrics',
               complexity |-> df_all_complexity',
               expressions |-> df_all_expr']
    /\ i_symb' = i_symb + 1
    /\ UNCHANGED <<otherVars, convVars, expVars, env, i_n, i_seed, pc>>

\* Lines 180-220 when count_ops raises: the metrics and the expression are
\* appended, the exception leaves the script, nothing is written.
UnitCrash ==
    /\ pc = "for_symb_seed"
    /\ i_symb < n_seeds
    /\ count_ops(conv_expr(env.fit[i_symb])).raised
    /\ df_all_metrics' = Append(df_all_metrics, MetricsRow)
    /\ df_all_expr' = Append(df_all_expr, ExprRow)
    /\ pc' = "crashed"
    /\ UNCHANGED <<otherVars, convVars, expVars, env, i_n, i_seed, i_symb, df_all_complexity, csv>>

NextSweep ==
    \/ ForNSamples
    \/ SweepDone
    \/ SeedsDone
    \/ Shortfall
    \/ EnoughSamples
    \/ SymbSeedsDone
    \/ RunUnit
    \/ UnitCrash

ConvIdle == ConvInit

InitSweep == SweepInit /\ ConvIdle /\ ExpIdle /\ OtherIdle

SpecSweep == InitSweep /\ [][NextSweep]_vars

-----------------------------------------------------------------------------
(* Properties of the sweep, checked under SpecSweep *)

\* C2: whenever the expression recorded for a unit is a degraded raw text,
\* the program_operations recorded for that unit is the sentinel -1.
C2_DegradedScoresSentinel ==
    \A i \in 1..Len(df_all_complexity) :
        df_all_expr[i].expr.tag = "text" => df_all_complexity[i].program_operations = -1

\* The unit (n_samples, sampling seed, regression seed) has its metrics row.
Fitted(n, sd, y) ==
    \E i \in 1..Len(df_all_metrics) :
        df_all_metrics[i] = Key(N_SAMPLES_SPACING[n], sampling_seeds[sd], y * 3)

\* C18: when a sampling seed has fewer rows than n_samples only that unit is
\* skipped: once the sweep has ended, every sampling seed with enough rows
\* has been fitted and recorded for that n_samples, for each regression seed.
C18_OnlyShortUnitSkipped ==
    pc = "done" =>
        \A n \in 1..Len(N_SAMPLES_SPACING), sd \in 1..Len(sampling_seeds) :
            env.rows[sd] >= N_SAMPLES_SPACING[n] =>
                \A y \in 0..(n_seeds - 1) : Fitted(n, sd, y)

\* What the code does for C18: a short sampling seed ends the loop over the
\* sampling seeds, so exactly the seeds before the first short one are fitted.
C18_ShortSeedEndsTheLoop ==
    pc = "done" =>
        \A n \in 1..Len(N_SAMPLES_SPACING), sd \in 1..Len(sampling_seeds), y \in 0..(n_seeds - 1) :
            Fitted(n, sd, y) <=> \A k \in 1..sd : env.rows[k] >= N_SAMPLES_SPACING[n]

\* C19: when convert_symb raises in a unit, the unit still completes (the
\* empty placeholder is recorded as its expression, its complexity row is
\* appended, the tables are written) and the sweep goes on without crashing.
C19_FailedConversionContinues ==
    /\ pc # "crashed"
    /\ \A i \in 1..Len(df_all_expr) :
        df_all_expr[i].expr.tag = "empty" =>
            /\ i <= Len(df_all_complexity)
            /\ df_all_complexity[i].key = df_all_expr[i].key
            /\ i <= Len(csv.expressions)

\* What the code does for C19: the placeholder is recorded, then count_ops
\* raises on it outside the try, and the script ends before writing.
C19_PlaceholderCrashesTheSweep ==
    \A i \in 1..Len(df_all_expr) :
        df_all_expr[i].expr.tag = "empty" =>
            /\ pc = "crashed"
            /\ i = Len(df_all_expr)
            /\ Len(df_all_complexity) = i - 1
            /\ Len(csv.expressions) = i - 1

-----------------------------------------------------------------------------
(* exp of utils/symb_reg_utils.py, lines 6-9 *)

\* A double is nan, +inf, -inf or a finite value m * 10^e with a mantissa of
\* four decimal digits (1000 <= |m| <= 9999, or m = 0 and e = 0).
Dbl(c, m, e) == [cls |-> c, m |-> m, e |-> e]
nan == Dbl("nan", 0, 0)
inf == Dbl("inf", 0, 0)
ninf == Dbl("-inf", 0, 0)

RECURSIVE Norm(_, _)
Norm(m, e) ==
    IF m = 0 THEN Dbl("fin", 0, 0)
    ELSE IF AbsInt(m) >= 10000 THEN Norm(RoundDiv(m, 10), e + 1)
    ELSE IF AbsInt(m) < 1000 THEN Norm(m * 10, e - 1)
    ELSE Dbl("fin", m, e)

FromInt(n) == Norm(n, 0)

\* The largest double is about 1.797 * 10^308, the smallest positive one
\* about 4.9 * 10^-324; a result below half of it rounds to zero.
Overflows(d) == d.e > 305 \/ (d.e = 305 /\ d.m > 1797)
Underflows(d) == d.m # 0 /\ (d.e < -327 \/ (d.e = -327 /\ d.m < 2470))

FMul(a, b) == Norm(a.m * b.m, a.e + b.e)
FRecip(a) == Norm(10000000 \div a.m, -a.e - 7)

\* e^n for a natural n, by repeated squaring.
RECURSIVE ExpNat(_)
ExpNat(n) ==
    IF n = 0 THEN FromInt(1)
    ELSE LET h == ExpNat(n \div 2)
             sq == FMul(h, h)
         IN  IF n % 2 = 1 THEN FMul(sq, Dbl("fin", 2718, -3)) ELSE sq

\* The integer a finite integral double below 10^4 stands for.
ToInt(d) == IF d.e >= 0 THEN d.m * Pow10(d.e) ELSE d.m \div Pow10(-d.e)

\* np.exp of one element, with the floating-point flags it sets.
NpExp(d) ==
    IF d.cls = "nan" THEN [v |-> nan, flags |-> {}]
    ELSE IF d.cls = "inf" THEN [v |-> inf, flags |-> {}]
    ELSE IF d.cls = "-inf" THEN [v |-> FromInt(0), flags |-> {}]
    ELSE IF d.e > 0 THEN
        (IF d.m > 0 THEN [v |-> inf, flags |-> {"over"}]
         ELSE [v |-> FromInt(0), flags |-> {"under"}])
    ELSE LET p == ExpNat(AbsInt(ToInt(d)))
         IN  IF d.m >= 0 THEN
                 (IF Overflows(p) THEN [v |-> inf, flags |-> {"over"}]
                  ELSE [v |-> p, flags |-> {}])
             ELSE IF Underflows(FRecip(p)) THEN [v |-> FromInt(0), flags |-> {"under"}]
             ELSE IF FRecip(p).e < -311 THEN [v |-> FRecip(p), flags |-> {"under"}]
             ELSE [v |-> FRecip(p), flags |-> {}]

\* a < b for two doubles that are not nan.
Less(a, b) ==
    IF a.cls = "inf" \/ b.cls = "-inf" THEN FALSE
    ELSE IF a.cls = "-inf" \/ b.cls = "inf" THEN TRUE
    ELSE IF a.m <= 0 /\ b.m > 0 THEN a.m < b.m
    ELSE IF a.m < 0 /\ b.m = 0 THEN TRUE
    ELSE IF a.m >= 0 /\ b.m <= 0 THEN FALSE
    ELSE IF a.m > 0 THEN a.e < b.e \/ (a.e = b.e /\ a.m < b.m)
    ELSE a.e > b.e \/ (a.e = b.e /\ a.m < b.m)

\* np.minimum of two elements: nan if either is nan.
NpMaximum(a, b) ==
    IF a.cls = "nan" \/ b.cls = "nan" THEN nan
    ELSE IF Less(a, b) THEN b ELSE a
NpMinimum(a, b) ==
    IF a.cls = "nan" \/ b.cls = "nan" THEN nan
    ELSE IF Less(b, a) THEN b ELSE a

\* fill_value of line 8.
fill_value == 100000

\* np.full(shape=x.shape, fill_value=100000), line 8.
max_value(xs) == [i \in 1..Len(xs) |-> FromInt(fill_value)]

\* np.errstate(all="ignore"), line 7: no flag becomes a warning or an error.
Warnings(flags) == {}

\* exp(x), lines 6-9.
exp(xs) ==
    [called |-> TRUE,
     a |-> [i \in 1..Len(xs) |-> NpMinimum(NpExp(xs[i]).v, max_value(xs)[i])],
     warnings |-> Warnings(UNION {NpExp(xs[i]).flags : i \in 1..Len(xs)})]

\* Longest input array.
MaxArrayLen == 2

\* The elements of the input arrays: nan, the infinities, integers around
\* the clipping point (e^11 < 100000 < e^12), around the overflow of a double
\* (e^709 is finite, e^710 is not), around its underflow, and 1e10.
Elements ==
    {nan, inf, ninf, Dbl("fin", 1000, 7)}
    \cup {FromInt(n) : n \in {-746, -744, -1, 0, 1, 11, 12, 709, 710}}

Arrays == UNION {[1..n -> Elements] : n \in 0..MaxArrayLen}

Call_exp ==
    /\ ~x_out.called
    /\ \E xs \in Arrays :
        /\ x_in' = xs
        /\ x_out' = exp(xs)
    /\ UNCHANGED <<otherVars, convVars, sweepVars>>

Return_exp ==
    /\ x_out.called
    /\ x_in' = <<>>
    /\ x_out' = [called |-> FALSE, a |-> <<>>, warnings |-> {}]
    /\ UNCHANGED <<otherVars, convVars, sweepVars>>

NextExp == Call_exp \/ Return_exp

InitExp == ExpIdle /\ ConvIdle /\ SweepIdle /\ OtherIdle

SpecExp == InitExp /\ [][NextExp]_vars

-----------------------------------------------------------------------------
(* Properties of exp, checked under SpecExp *)

Hundred_thousand == Dbl("fin", 1000, 2)
IsNanOrInf(d) == d.cls \in {"nan", "inf", "-inf"}

\* C10: exp returns an array of the input's shape whose every element is at
\* most 100000 and neither inf nor NaN, with no warning, and exp(1e10) is
\* exactly 100000.
C10_ClippedForEveryInput ==
    x_out.called =>
        /\ Len(x_out.a) = Len(x_in)
        /\ x_out.warnings = {}
        /\ \A i \in 1..Len(x_in) :
            /\ ~IsNanOrInf(x_out.a[i])
            /\ ~Less(Hundred_thousand, x_out.a[i])
            /\ x_in[i] = Dbl("fin", 1000, 7) => x_out.a[i] = Hundred_thousand

\* C10 as amended: the same for every element that is not NaN; a NaN element
\* comes back as NaN.
C10_ClippedUnlessNan ==
    x_out.called =>
        /\ Len(x_out.a) = Len(x_in)
        /\ x_out.warnings = {}
        /\ \A i \in 1..Len(x_in) :
            IF x_in[i].cls = "nan" THEN x_out.a[i].cls = "nan"
            ELSE /\ ~IsNanOrInf(x_out.a[i])
                 /\ ~Less(Hundred_thousand, x_out.a[i])
                 /\ ~Less(x_out.a[i], FromInt(0))
                 /\ (x_in[i] = Dbl("fin", 1000, 7) \/ x_in[i].cls = "inf")
                        => x_out.a[i] = Hundred_thousand
                 /\ (x_in[i].cls = "fin" /\ x_in[i].e <= 0 /\ ToInt(x_in[i]) \in 0..11)
                        => /\ Less(x_out.a[i], Hundred_thousand)
                           /\ ~Less(x_out.a[i], FromInt(1))

\* exp([1e10, 11]): the first element is clipped, the second is not.
C10_Witness ==
    /\ x_out.called
    /\ x_in = <<Dbl("fin", 1000, 7), FromInt(11)>>
    /\ x_out.a[1] = Hundred_thousand
    /\ Less(x_out.a[2], Hundred_thousand)
    /\ Less(FromInt(59000), x_out.a[2])

-----------------------------------------------------------------------------
(* get_function_set of utils/symb_reg_utils.py, lines 12-28 *)

\* An entry of the list: the name of one of gplearn's own operators, or an
\* operator object made by make_function.
BuiltIn(nm) == [custom |-> FALSE, name |-> nm, arity |-> 0, function |-> ""]
make_function(f, a, nm) == [custom |-> TRUE, name |-> nm, arity |-> a, function |-> f]

\* exp_func of line 13.
exp_func == make_function("exp", 1, "exp")

get_function_setWithBuiltInExp ==
    <<BuiltIn("add"), BuiltIn("sub"), BuiltIn("mul"), BuiltIn("div"), BuiltIn("sqrt"),
      BuiltIn("log"), BuiltIn("sin"), BuiltIn("cos"), BuiltIn("abs"), BuiltIn("exp")>>
get_function_set ==
    <<BuiltIn("add"), BuiltIn("sub"), BuiltIn("mul"), BuiltIn("div"), BuiltIn("sqrt"),
      BuiltIn("log"), BuiltIn("sin"), BuiltIn("cos"), BuiltIn("abs"), exp_func>>

\* The Python function an operator object wraps, called on an array.
CallFunction(f, xs) == IF f = "exp" THEN exp(xs).a ELSE <<>>

\* function_set=get_function_set() of run_symbolic_explanation.py, line 142.
Call_get_function_set ==
    /\ function_set = <<>>
    /\ function_set' = get_function_set
    /\ UNCHANGED <<applied, convVars, expVars, sweepVars, elbowVars, scoreVars, laterVars>>

\* The regressor evaluates an operator object of the list on an array.
ApplyOperator ==
    /\ function_set # <<>>
    /\ ~applied.called
    /\ \E i \in 1..Len(function_set), xs \in Arrays :
        /\ function_set[i].custom
        /\ applied' = [called |-> TRUE, i |-> i, x |-> xs,
                       out |-> CallFunction(function_set[i].function, xs)]
    /\ UNCHANGED <<function_set, convVars, expVars, sweepVars, elbowVars, scoreVars, laterVars>>

\* The evaluation is over; the list stays.
OperatorDone ==
    /\ applied.called
    /\ applied' = NotApplied
    /\ UNCHANGED <<function_set, convVars, expVars, sweepVars, elbowVars, scoreVars, laterVars>>

NextFunctionSet == Call_get_function_set \/ ApplyOperator \/ OperatorDone

InitFunctionSet ==
    FsIdle /\ ConvIdle /\ ExpIdle /\ SweepIdle /\ ElbowIdle /\ ScoresIdle /\ LaterIdle

SpecFunctionSet == InitFunctionSet /\ [][NextFunctionSet]_vars

-----------------------------------------------------------------------------
(* Properties of get_function_set, checked under SpecFunctionSet *)

OperatorNames == <<"add", "sub", "mul", "div", "sqrt", "log", "sin", "cos", "abs", "exp">>

\* C11: the list returned by get_function_set holds exactly the ten operators
\* add, sub, mul, div, sqrt, log, sin, cos, abs, exp, each once; exp is the
\* only operator object, has arity 1, and applied to an array gives the
\* element-wise minimum of e^x and 100000.
C11_TenOperators ==
    function_set # <<>> =>
        /\ Len(function_set) = 10
        /\ \A i \in 1..10 : function_set[i].name = OperatorNames[i]
        /\ \A i \in 1..10 : function_set[i].custom <=> (function_set[i].name = "exp")
        /\ \A i \in 1..10 : function_set[i].custom => function_set[i].arity = 1
        /\ applied.called =>
            /\ function_set[applied.i].name = "exp"
            /\ Len(applied.out) = Len(applied.x)
            /\ \A k \in 1..Len(applied.x) :
                applied.out[k] = NpMinimum(NpExp(applied.x[k]).v, FromInt(fill_value))

\* The exp of the list applied to [12, 11]: the first element is clipped.
C11_Witness ==
    /\ Len(function_set) = 10
    /\ applied.called
    /\ applied.x = <<FromInt(12), FromInt(11)>>
    /\ applied.out[1] = FromInt(fill_value)
    /\ Less(applied.out[2], FromInt(fill_value))

-----------------------------------------------------------------------------
(* The elbow selection of plot_complexity_vs_rmse.py, lines 91-118 *)

\* A numpy float64 of the selection: nan, an infinity, or the exact fraction
\* (-1)^neg * num / den in lowest terms; neg is the sign bit, which a zero
\* keeps.  The arithmetic is exact where a float operation rounds.
RECURSIVE Gcd(_, _)
Gcd(a, b) == IF b = 0 THEN a ELSE Gcd(b, a % b)

QNan == [cls |-> "nan", neg |-> FALSE, num |-> 0, den |-> 1]
QInf(ng) == [cls |-> "inf", neg |-> ng, num |-> 0, den |-> 1]
QFin(ng, n, d) ==
    IF n = 0 THEN [cls |-> "fin", neg |-> ng, num |-> 0, den |-> 1]
    ELSE [cls |-> "fin", neg |-> ng, num |-> n \div Gcd(n, d), den |-> d \div Gcd(n, d)]
QInt(i) == QFin(i < 0, AbsInt(i), 1)
QIsZero(a) == a.cls = "fin" /\ a.num = 0
QNeg(a) == IF a.cls = "nan" THEN a ELSE [a EXCEPT !.neg = ~a.neg]
\* num / den with its sign, as an integer numerator over a.den.
QSigned(a) == IF a.neg THEN -a.num ELSE a.num

QMul(a, b) ==
    IF a.cls = "nan" \/ b.cls = "nan" THEN QNan
    ELSE IF (a.cls = "inf" /\ QIsZero(b)) \/ (b.cls = "inf" /\ QIsZero(a)) THEN QNan
    ELSE IF a.cls = "inf" \/ b.cls = "inf" THEN QInf(a.neg # b.neg)
    ELSE QFin(a.neg # b.neg, a.num * b.num, a.den * b.den)

QDiv(a, b) ==
    IF a.cls = "nan" \/ b.cls = "nan" THEN QNan
    ELSE IF (a.cls = "inf" /\ b.cls = "inf") \/ (QIsZero(a) /\ QIsZero(b)) THEN QNan
    ELSE IF a.cls = "inf" \/ QIsZero(b) THEN QInf(a.neg # b.neg)
    ELSE IF b.cls = "inf" THEN QFin(a.neg # b.neg, 0, 1)
    ELSE QFin(a.neg # b.neg, a.num * b.den, a.den * b.num)

QAdd(a, b) ==
    IF a.cls = "nan" \/ b.cls = "nan" THEN QNan
    ELSE IF a.cls = "inf" /\ b.cls = "inf" THEN (IF a.neg = b.neg THEN a ELSE QNan)
    ELSE IF a.cls = "inf" THEN a
    ELSE IF b.cls = "inf" THEN b
    ELSE LET n == QSigned(a) * b.den + QSigned(b) * a.den
         IN  IF n = 0 THEN QFin(a.neg /\ b.neg, 0, 1)
             ELSE QFin(n < 0, AbsInt(n), a.den * b.den)

QSub(a, b) == QAdd(a, QNeg(b))

\* a < b; false as soon as one of them is nan.
QLess(a, b) ==
    IF a.cls = "nan" \/ b.cls = "nan" THEN FALSE
    ELSE IF a.cls = "inf" THEN a.neg /\ ~(b.cls = "inf" /\ b.neg)
    ELSE IF b.cls = "inf" THEN ~b.neg
    ELSE QSigned(a) * b.den < QSigned(b) * a.den

\* A row of df_joined_all: one point per parsimony coefficient.
Point(c, r) == [complexity |-> QInt(c), rmse_test |-> QInt(r)]

\* df.sort_values(col): ascending, rows with a nan key last; rows with equal
\* keys keep their order (the frames have at most a dozen rows, which numpy
\* sorts by insertion).
RECURSIVE InsertSorted(_, _, _)
InsertSorted(row, sorted, col) ==
    IF sorted = <<>> THEN <<row>>
    ELSE IF row[col].cls # "nan"
            /\ (Head(sorted)[col].cls = "nan" \/ QLess(row[col], Head(sorted)[col]))
        THEN <<row>> \o sorted
    ELSE <<Head(sorted)>> \o InsertSorted(row, Tail(sorted), col)

RECURSIVE sort_values(_, _)
sort_values(df, col) ==
    IF df = <<>> THEN <<>>
    ELSE InsertSorted(df[Len(df)], sort_values(SubSeq(df, 1, Len(df) - 1), col), col)

\* Lines 92-93: sorted by complexity, then by rmse_test.
df_sortedByComplexity(df) == sort_values(sort_values(df, "rmse_test"), "complexity")
df_sorted(df) == sort_values(sort_values(df, "complexity"), "rmse_test")

\* Line 100, from the four values of lines 94-97.
slope(df) ==
    QDiv(QSub(df_sorted(df)[1].rmse_test, df_sorted(df)[Len(df)].rmse_test),
         QSub(df_sorted(df)[1].complexity, df_sorted(df)[Len(df)].complexity))

\* Line 106: the line through row1 with the slope, at row2's complexity.
line_y(row1, row2, sl) ==
    QAdd(QMul(sl, QSub(row2.complexity, row1.complexity)), row1.rmse_test)

\* Lines 104-109: some row lies strictly below the line through df[i].
PointsBelowOrOn(df, i, sl) ==
    \E j \in 1..Len(df) : ~QLess(line_y(df[i], df[j], sl), df[j].rmse_test)
PointsBelowAmongEarlierRows(df, i, sl) ==
    \E j \in 1..(i - 1) : QLess(df[j].rmse_test, line_y(df[i], df[j], sl))
points_below(df, i, sl) ==
    \E j \in 1..Len(df) : QLess(df[j].rmse_test, line_y(df[i], df[j], sl))

\* Lines 101-112: the first row, in iteration order, with no row below its
\* line; <<>> is None.
Candidates(df, sl) == {i \in 1..Len(df) : ~points_below(df, i, sl)}
LastQualifyingPoint(df, sl) ==
    IF Candidates(df, sl) = {} THEN <<>>
    ELSE <<df[CHOOSE i \in Candidates(df, sl) : \A k \in Candidates(df, sl) : i >= k]>>
selected_point(df, sl) ==
    IF Candidates(df, sl) = {} THEN <<>>
    ELSE <<df[CHOOSE i \in Candidates(df, sl) : \A k \in Candidates(df, sl) : i <= k]>>

\* Lines 91-118 on a non-empty frame.
ElbowSelection(df) ==
    LET srt == df_sorted(df)
        xlr == srt[1].complexity
        xul == srt[Len(df)].complexity
        ylr == srt[1].rmse_test
        yul == srt[Len(df)].rmse_test
        sl  == slope(df)
        sel == selected_point(df, sl)
    IN  [tag |-> "done",
         x_lower_right |-> xlr, x_upper_left |-> xul,
         y_lower_right |-> ylr, y_upper_left |-> yul,
         slope |-> sl,
         selected_point |-> sel,
         red |-> <<<<xul, xlr>>, <<yul, ylr>>>>,
         marker |-> IF sel = <<>> THEN <<>> ELSE <<sel[1].complexity, sel[1].rmse_test>>,
         orange |-> IF sel = <<>> THEN <<>>
                    ELSE <<<<xul, QAdd(QDiv(QSub(ylr, sel[1].rmse_test), sl), sel[1].complexity)>>,
                           <<QAdd(QMul(sl, QSub(xul, sel[1].complexity)), sel[1].rmse_test), ylr>>>>]

\* Most points of a frame.
MaxPoints == 3

\* Complexities (operation counts) and errors (RMSE in hundredths) of the
\* points; the sets hold the three points (2, 0.30), (5, 0.10), (10, 0.08).
Complexities == {2, 5, 10}
Errors == {8, 10, 30}
Points == {Point(c, r) : c \in Complexities, r \in Errors}
Frames == UNION {[1..n -> Points] : n \in 1..MaxPoints}

\* Lines 91-118 for one run configuration.
PerformElbow ==
    /\ elbow.tag = "none"
    /\ \E df \in Frames :
        /\ df_joined_all' = df
        /\ elbow' = ElbowSelection(df)
    /\ UNCHANGED <<convVars, expVars, sweepVars, fsVars, scoreVars, laterVars>>

\* Line 39: the next run configuration starts with a fresh frame (line 54).
NextRunConf ==
    /\ elbow.tag = "done"
    /\ df_joined_all' = <<>>
    /\ elbow' = NoElbow
    /\ UNCHANGED <<convVars, expVars, sweepVars, fsVars, scoreVars, laterVars>>

NextElbow == PerformElbow \/ NextRunConf

InitElbow ==
    ElbowIdle /\ ConvIdle /\ ExpIdle /\ SweepIdle /\ FsIdle /\ ScoresIdle /\ LaterIdle

SpecElbow == InitElbow /\ [][NextElbow]_vars

-----------------------------------------------------------------------------
(* Properties of the elbow selection, checked under SpecElbow *)

Rows == {df_joined_all[i] : i \in 1..Len(df_joined_all)}
MinRmseRows == {r \in Rows : \A q \in Rows : ~QLess(q.rmse_test, r.rmse_test)}
MaxRmseRows == {r \in Rows : \A q \in Rows : ~QLess(r.rmse_test, q.rmse_test)}
MinComplexityRows == {r \in Rows : \A q \in Rows : ~QLess(q.complexity, r.complexity)}
QGeq(a, b) == a.cls # "nan" /\ b.cls # "nan" /\ ~QLess(a, b)
Selected == elbow.tag = "done" /\ elbow.selected_point # <<>>
\* The minimum-RMSE and the maximum-RMSE point have different complexities.
ExtremesApart == elbow.tag = "done" /\ elbow.x_lower_right # elbow.x_upper_left

\* C12: on the points (2, 0.30), (5, 0.10), (10, 0.08), in any iteration
\* order, the reference line runs from (2, 0.30) to (10, 0.08) and the point
\* (5, 0.10) is selected.
C12_ElbowOfThreePoints ==
    (elbow.tag = "done" /\ Len(df_joined_all) = 3
        /\ Rows = {Point(2, 30), Point(5, 10), Point(10, 8)}) =>
        /\ elbow.red = <<<<QInt(2), QInt(10)>>, <<QInt(30), QInt(8)>>>>
        /\ elbow.slope = QFin(TRUE, 22, 8)
        /\ elbow.selected_point = <<Point(5, 10)>>
        /\ elbow.marker = <<QInt(5), QInt(10)>>

\* The three points with (5, 0.10) last in the iteration.
C12_Witness ==
    /\ elbow.tag = "done"
    /\ df_joined_all = <<Point(10, 8), Point(2, 30), Point(5, 10)>>
    /\ elbow.selected_point = <<Point(5, 10)>>

C14_SelectsAndExtremesQualify ==
    ExtremesApart =>
        /\ elbow.selected_point # <<>>
        /\ \A i \in 1..Len(df_joined_all) :
            df_joined_all[i] \in {[complexity |-> elbow.x_lower_right, rmse_test |-> elbow.y_lower_right],
                                  [complexity |-> elbow.x_upper_left, rmse_test |-> elbow.y_upper_left]}
                => i \in Candidates(df_joined_all, elbow.slope)

\* C14 as amended: for such a set a point of the set is selected; the
\* extreme points need not be candidates.
C14_SelectsSomePoint ==
    ExtremesApart =>
        /\ elbow.selected_point # <<>>
        /\ elbow.selected_point[1] \in Rows
        /\ Candidates(df_joined_all, elbow.slope) # {}

\* A selection in which neither extreme point is a candidate.
C14_Witness ==
    /\ ExtremesApart
    /\ elbow.selected_point # <<>>
    /\ \A i \in 1..Len(df_joined_all) :
        df_joined_all[i].rmse_test \in {elbow.y_lower_right, elbow.y_upper_left}
            => i \notin Candidates(df_joined_all, elbow.slope)

\* C15: the upper-left endpoint of the reference line is the point of
\* minimum complexity, the other endpoint the point of lowest error.
C15_UpperLeftIsMinComplexity ==
    elbow.tag = "done" =>
        /\ [complexity |-> elbow.x_upper_left, rmse_test |-> elbow.y_upper_left] \in MinComplexityRows
        /\ [complexity |-> elbow.x_lower_right, rmse_test |-> elbow.y_lower_right] \in MinRmseRows

\* C15 as amended: the reference line runs between the point of lowest error
\* (of several, the least complex) and the point of highest error (of
\* several, the most complex), whatever their complexities.
C15_EndpointsAreErrorExtremes ==
    elbow.tag = "done" =>
        LET lr == [complexity |-> elbow.x_lower_right, rmse_test |-> elbow.y_lower_right]
            ul == [complexity |-> elbow.x_upper_left, rmse_test |-> elbow.y_upper_left]
        IN  /\ lr \in MinRmseRows
            /\ \A q \in MinRmseRows : ~QLess(q.complexity, lr.complexity)
            /\ ul \in MaxRmseRows
            /\ \A q \in MaxRmseRows : ~QLess(ul.complexity, q.complexity)
            /\ elbow.red = <<<<ul.complexity, lr.complexity>>, <<ul.rmse_test, lr.rmse_test>>>>

\* The point of highest error is the most complex one of the frame.
C15_Witness ==
    /\ elbow.tag = "done"
    /\ df_joined_all = <<Point(2, 10), Point(10, 30), Point(5, 8)>>
    /\ elbow.x_upper_left = QInt(10)
    /\ elbow.x_lower_right = QInt(5)

\* C16: on a degenerate set (one point, or extreme points of equal
\* complexity, the slope dividing by zero) no point is selected.
C16_DegenerateSelectsNothing ==
    (elbow.tag = "done" /\ ~ExtremesApart) => elbow.selected_point = <<>>

\* What the code does on a degenerate set: the slope is nan or an infinity
\* and a point is selected all the same.
C16_DegenerateSelectsAPoint ==
    (elbow.tag = "done" /\ ~ExtremesApart) =>
        /\ elbow.slope.cls \in {"nan", "inf"}
        /\ elbow.selected_point # <<>>


\* The frame in the opposite iteration order.
Reversed(df) == [i \in 1..Len(df) |-> df[Len(df) + 1 - i]]

\* C22: the selected point is the first row, in the order of the frame, that
\* has no row strictly below its line; every row before it has one.
C22_FirstQualifyingInOrder ==
    Selected =>
        \E i \in 1..Len(df_joined_all) :
            /\ elbow.selected_point[1] = df_joined_all[i]
            /\ \A j \in 1..Len(df_joined_all) :
                ~QLess(df_joined_all[j].rmse_test,
                       line_y(df_joined_all[i], df_joined_all[j], elbow.slope))
            /\ \A k \in 1..(i - 1) :
                \E j \in 1..Len(df_joined_all) :
                    QLess(df_joined_all[j].rmse_test,
                          line_y(df_joined_all[k], df_joined_all[j], elbow.slope))

\* C22 witness: two different rows qualify under a finite slope, the earlier
\* one is selected, and the same rows in the opposite order give the other.
C22_OrderDecides ==
    /\ Selected
    /\ elbow.slope.cls = "fin"
    /\ \E i, j \in Candidates(df_joined_all, elbow.slope) :
        /\ i < j
        /\ df_joined_all[i] # df_joined_all[j]
        /\ elbow.selected_point[1] = df_joined_all[i]
    /\ ElbowSelection(Reversed(df_joined_all)).slope = elbow.slope
    /\ ElbowSelection(Reversed(df_joined_all)).selected_point # elbow.selected_point
-----------------------------------------------------------------------------
(* get_scores of utils/utils.py, lines 155-172 *)

RECURSIVE SumOver(_, _, _)
\* The sum of f[i] for i in lo..hi.
SumOver(f, lo, hi) == IF lo > hi THEN 0 ELSE f[lo] + SumOver(f, lo + 1, hi)

\* sklearn refuses arrays of different lengths and empty arrays.
Consistent(y, pred) == Len(y) = Len(pred) /\ Len(y) >= 1

mean_absolute_error(y, pred) ==
    QDiv(QInt(SumOver([i \in 1..Len(y) |-> AbsInt(y[i] - pred[i])], 1, Len(y))), QInt(Len(y)))

mean_squared_error(y, pred) ==
    QDiv(QInt(SumOver([i \in 1..Len(y) |-> (y[i] - pred[i]) * (y[i] - pred[i])], 1, Len(y))),
         QInt(Len(y)))

\* r2_score: nan (and a warning) below two samples; 1 - SS_res / SS_tot,
\* and for a constant y 1.0 if the prediction is exact, else 0.0.
\* SS_tot is taken times the number of samples, to stay in the integers.
r2_scoreWithoutConstantCase(y, pred) ==
    LET n == Len(y)
        res == SumOver([i \in 1..n |-> (y[i] - pred[i]) * (y[i] - pred[i])], 1, n)
        sy == SumOver([i \in 1..n |-> y[i]], 1, n)
        tot == n * SumOver([i \in 1..n |-> y[i] * y[i]], 1, n) - sy * sy
    IN  IF n < 2 THEN QNan
        ELSE IF tot = 0 THEN QInt(0)
        ELSE QSub(QInt(1), QDiv(QInt(n * res), QInt(tot)))
r2_score(y, pred) ==
    LET n == Len(y)
        res == SumOver([i \in 1..n |-> (y[i] - pred[i]) * (y[i] - pred[i])], 1, n)
        sy == SumOver([i \in 1..n |-> y[i]], 1, n)
        tot == n * SumOver([i \in 1..n |-> y[i] * y[i]], 1, n) - sy * sy
    IN  IF n < 2 THEN QNan
        ELSE IF tot = 0 THEN (IF res = 0 THEN QInt(1) ELSE QInt(0))
        ELSE QSub(QInt(1), QDiv(QInt(n * res), QInt(tot)))

\* The column names of lines 165-170, in order.
ScoreColumns ==
    <<"mae_train_smac", "mae_test_smac", "mse_train_smac", "mse_test_smac",
      "r2_train_smac", "r2_test_smac">>

get_scores(y_train, pred_train, y_test, pred_test) ==
    IF ~Consistent(y_train, pred_train) \/ ~Consistent(y_test, pred_test)
        THEN [tag |-> "raised", columns |-> <<>>, row |-> <<>>, msg |-> "ValueError"]
    ELSE [tag |-> "done",
          columns |-> ScoreColumns,
          row |-> <<mean_absolute_error(y_train, pred_train),
                    mean_absolute_error(y_test, pred_test),
                    mean_squared_error(y_train, pred_train),
                    mean_squared_error(y_test, pred_test),
                    r2_score(y_train, pred_train),
                    r2_score(y_test, pred_test)>>,
          msg |-> ""]

\* Most samples of an array, and the values of targets and predictions.
MaxSamples == 2
Targets == {0, 1}
Samples == UNION {[1..n -> Targets] : n \in 1..MaxSamples}

Call_get_scores ==
    /\ df_scores.tag = "none"
    /\ \E yt \in Samples, pt \in Samples, ye \in Samples, pe \in Samples :
        /\ scores_in' = <<yt, pt, ye, pe>>
        /\ df_scores' = get_scores(yt, pt, ye, pe)
    /\ UNCHANGED <<convVars, expVars, sweepVars, fsVars, elbowVars, laterVars>>

Return_get_scores ==
    /\ df_scores.tag # "none"
    /\ scores_in' = <<>>
    /\ df_scores' = NoScores
    /\ UNCHANGED <<convVars, expVars, sweepVars, fsVars, elbowVars, laterVars>>

NextScores == Call_get_scores \/ Return_get_scores

InitScores ==
    ScoresIdle /\ ConvIdle /\ ExpIdle /\ SweepIdle /\ FsIdle /\ ElbowIdle /\ LaterIdle

SpecScores == InitScores /\ [][NextScores]_vars

-----------------------------------------------------------------------------
(* Properties of get_scores, checked under SpecScores *)

\* Column k of the returned record.
Score(k) == df_scores.row[k]
Identical ==
    /\ df_scores.tag # "none"
    /\ scores_in[2] = scores_in[1]
    /\ scores_in[4] = scores_in[3]

\* C17: with pred_train = y_train and pred_test = y_test, get_scores returns
\* one record of exactly six columns (mae, mse, r2 for train and test) with
\* MAE = 0, MSE = 0 and R2 = 1 on both sides.
C17_PerfectScores ==
    Identical =>
        /\ df_scores.tag = "done"
        /\ Len(df_scores.columns) = 6 /\ Len(df_scores.row) = 6
        /\ \A k \in 1..4 : Score(k) = QInt(0)
        /\ \A k \in 5..6 : Score(k) = QInt(1)

\* C17 as amended: the same, R2 being 1 on a side whose arrays hold at least
\* two samples, and nan on a side with a single sample.
C17_PerfectScoresFromTwoSamples ==
    Identical =>
        /\ df_scores.tag = "done"
        /\ df_scores.columns = ScoreColumns /\ Len(df_scores.row) = 6
        /\ \A k \in 1..4 : Score(k) = QInt(0)
        /\ Score(5) = IF Len(scores_in[1]) >= 2 THEN QInt(1) ELSE QNan
        /\ Score(6) = IF Len(scores_in[3]) >= 2 THEN QInt(1) ELSE QNan

\* Exact predictions of a constant and of a varying target.
C17_Witness ==
    /\ Identical
    /\ scores_in[1] = <<1, 1>>
    /\ scores_in[3] = <<0, 1>>
    /\ Score(5) = QInt(1) /\ Score(6) = QInt(1)

-----------------------------------------------------------------------------
(* The aggregation of plot_complexity_vs_rmse.py, lines 54-79 *)

\* n_samples of line 18: the sample size the plot is made for.
selected_n_samples == 200

\* parsimony_coefficient_space of lines 12-16, shortened, in units of 10^-4.
parsimony_coefficient_space == <<1, 25>>

\* One unit of a sweep as its rows in error_metrics.csv and complexity.csv
\* show it: the files of a sweep hold the same units, row by row.
Record(n, mse, ops) == [n_samples |-> n, mse_test |-> mse, program_operations |-> ops]

\* Series.mean(): nan for an empty series.
mean(xs) ==
    IF xs = <<>> THEN QNan ELSE QDiv(QInt(SumOver(xs, 1, Len(xs))), QInt(Len(xs)))

AtSelectedSize(r) == r.n_samples = selected_n_samples
KnownComplexity(r) == r.program_operations # -1

\* Lines 62-65: the rows of error_metrics.csv at the selected sample size,
\* with rmse_test = sqrt(mse_test).
df_error_metrics(units) ==
    LET rows == SelectSeq(units, AtSelectedSize)
    IN  [i \in 1..Len(rows) |-> ISqrt(rows[i].mse_test)]

\* Lines 69-72: the rows of complexity.csv at the selected sample size whose
\* program_operations is not -1.
df_complexityUnfiltered(units) ==
    LET rows == SelectSeq(units, AtSelectedSize)
    IN  [i \in 1..Len(rows) |-> rows[i].program_operations]
df_complexity(units) ==
    LET rows == SelectSeq(SelectSeq(units, AtSelectedSize), KnownComplexity)
    IN  [i \in 1..Len(rows) |-> rows[i].program_operations]

\* Lines 74-78: the point of one parsimony value.
df_joined(parsimony, units) ==
    [Parsimony |-> parsimony,
     rmse_test |-> mean(df_error_metrics(units)),
     complexity |-> mean(df_complexity(units))]

\* Most units in the files of one parsimony value.
MaxRecords == 2

\* The units a file can hold: at the selected sample size with a squared
\* error of 0.01^2 or 0.03^2 (in units of 10^-4) and with 2 or 6 operations
\* or the value -1, and one unit at another sample size.
Records ==
    {Record(selected_n_samples, mse, ops) : mse \in {1, 9}, ops \in {-1, 2, 6}}
        \cup {Record(100, 9, 6)}
Tables == UNION {[1..n -> Records] : n \in 0..MaxRecords}

AggInit ==
    /\ csv_in = <<>>
    /\ i_pars = 1
    /\ df_joined_all = <<>>
    /\ elbow = NoElbow

\* Lines 56-79 for one parsimony value: its two files are read, filtered
\* and averaged, and the point is appended to df_joined_all.
ForParsimony ==
    /\ i_pars >= 1
    /\ i_pars <= Len(parsimony_coefficient_space)
    /\ \E units \in Tables :
        /\ csv_in' = units
        /\ df_joined_all' =
            Append(df_joined_all, df_joined(parsimony_coefficient_space[i_pars], units))
    /\ i_pars' = i_pars + 1
    /\ UNCHANGED <<elbow, convVars, expVars, sweepVars, fsVars, scoreVars,
                   repeatVars, plotVars, hpoVars>>

\* Lines 91-118 on the aggregated frame.
ElbowOfJoined ==
    /\ i_pars > Len(parsimony_coefficient_space)
    /\ elbow.tag = "none"
    /\ elbow' = ElbowSelection(df_joined_all)
    /\ UNCHANGED <<df_joined_all, aggVars, convVars, expVars, sweepVars, fsVars, scoreVars,
                   repeatVars, plotVars, hpoVars>>

\* Line 39: the next run configuration starts over.
NextRunConfAggregate ==
    /\ elbow.tag = "done"
    /\ i_pars > Len(parsimony_coefficient_space)
    /\ csv_in' = <<>>
    /\ i_pars' = 1
    /\ df_joined_all' = <<>>
    /\ elbow' = NoElbow
    /\ UNCHANGED <<convVars, expVars, sweepVars, fsVars, scoreVars,
                   repeatVars, plotVars, hpoVars>>

NextAggregate == ForParsimony \/ ElbowOfJoined \/ NextRunConfAggregate

InitAggregate ==
    /\ AggInit /\ ConvIdle /\ ExpIdle /\ SweepIdle /\ FsIdle /\ ScoresIdle
    /\ RepeatIdle /\ PlotIdle /\ HpoIdle

SpecAggregate == InitAggregate /\ [][NextAggregate]_vars

\* The rows of the files just read that count for the complexity of the
\* point: at the selected sample size, with a known number of operations.
Counted == {i \in DOMAIN csv_in : csv_in[i].n_samples = selected_n_samples
                                  /\ csv_in[i].program_operations # -1}

RECURSIVE TotalOperations(_)
TotalOperations(S) ==
    IF S = {} THEN 0
    ELSE LET i == CHOOSE j \in S : TRUE
         IN  csv_in[i].program_operations + TotalOperations(S \ {i})

RECURSIVE TotalRmse(_)
TotalRmse(S) ==
    IF S = {} THEN 0
    ELSE LET i == CHOOSE j \in S : TRUE
         IN  ISqrt(csv_in[i].mse_test) + TotalRmse(S \ {i})

\* The point made from the files just read.
LastPoint == df_joined_all[Len(df_joined_all)]

\* C21: the mean complexity of the point of a parsimony value is the sum of
\* program_operations over the records at the selected sample size whose
\* program_operations is not -1, divided by the number of those records.
C21_MeanOverKnownComplexity ==
    (i_pars > 1 /\ df_joined_all # <<>> /\ Counted # {}) =>
        /\ LastPoint.complexity.cls = "fin"
        /\ ~LastPoint.complexity.neg
        /\ LastPoint.complexity.num * Cardinality(Counted)
               = LastPoint.complexity.den * TotalOperations(Counted)

\* C21 witness: the files hold a record with -1 and a record with a known
\* complexity at the selected sample size, and the point carries the known one.
C21_SentinelLeftOut ==
    /\ i_pars > 1 /\ df_joined_all # <<>>
    /\ Cardinality(Counted) = 1
    /\ \E i \in DOMAIN csv_in :
        /\ csv_in[i].n_samples = selected_n_samples
        /\ csv_in[i].program_operations = -1
    /\ LastPoint.complexity = QInt(6)

\* C28 as stated: every point of the frame the selector iterates over has a
\* mean complexity that is not nan.
C28_EveryPointHasComplexity ==
    elbow.tag = "done" =>
        \A i \in DOMAIN df_joined_all : df_joined_all[i].complexity.cls # "nan"

\* C28, what the code does: a parsimony value without a record of known
\* complexity still has its point in the frame the selector has run on.
C28_NanPointInElbowInput ==
    /\ elbow.tag = "done"
    /\ \E i \in DOMAIN df_joined_all : df_joined_all[i].complexity.cls = "nan"

\* C29 as stated: the mean test RMSE of a point is taken over the records
\* its mean complexity is taken over.
C29_SameRecordsForBothMeans ==
    (i_pars > 1 /\ df_joined_all # <<>> /\ Counted # {}) =>
        /\ LastPoint.rmse_test.cls = "fin"
        /\ LastPoint.rmse_test.num * Cardinality(Counted)
               = LastPoint.rmse_test.den * TotalRmse(Counted)

\* C29, what the code does: a record with complexity -1 enters the mean RMSE
\* of a point whose mean complexity leaves it out.
C29_SentinelRecordInRmseMean ==
    /\ i_pars > 1 /\ df_joined_all # <<>>
    /\ csv_in = <<Record(selected_n_samples, 1, 2), Record(selected_n_samples, 9, -1)>>
    /\ LastPoint.complexity = QInt(2)
    /\ LastPoint.rmse_test = QInt(2)

-----------------------------------------------------------------------------
(* Properties of the tables and files of the sweep, checked under SpecSweep *)

MetricsKeys == [i \in 1..Len(df_all_metrics) |-> df_all_metrics[i]]
ExprKeys == [i \in 1..Len(df_all_expr) |-> df_all_expr[i].key]
ComplexityKeys == [i \in 1..Len(df_all_complexity) |-> df_all_complexity[i].key]
NoKeyTwice(keys) == \A i, j \in 1..Len(keys) : keys[i] = keys[j] => i = j

\* The regression seeds recorded in a table for one (n_samples, sampling_seed).
SeedsOf(keys, n, sd) ==
    {keys[i].symb_seed : i \in {j \in 1..Len(keys) : keys[j].n_samples = n
                                                     /\ keys[j].sampling_seed = sd}}

\* C23: no (n_samples, sampling_seed, symb_seed) triple is twice in a table;
\* the regression seeds are 0, 3 and 6, all three for a unit whose loop has
\* ended; and between two triples the three tables have equally many rows.
C23_TriplesOnceSeeds036 ==
    /\ NoKeyTwice(MetricsKeys) /\ NoKeyTwice(ExprKeys) /\ NoKeyTwice(ComplexityKeys)
    /\ \A i \in 1..Len(df_all_metrics) : df_all_metrics[i].symb_seed \in {0, 3, 6}
    /\ pc \notin {"for_symb_seed", "crashed"} =>
        \A i \in 1..Len(df_all_metrics) :
            SeedsOf(MetricsKeys, df_all_metrics[i].n_samples, df_all_metrics[i].sampling_seed)
                = {0, 3, 6}
    /\ pc # "crashed" =>
        /\ Len(df_all_metrics) = Len(df_all_expr)
        /\ Len(df_all_expr) = Len(df_all_complexity)
        /\ MetricsKeys = ExprKeys
        /\ ExprKeys = ComplexityKeys

\* C23 witness: a sweep that ended with all units of both sample sizes.
C23_FullSweep ==
    /\ pc = "done"
    /\ Len(df_all_complexity) = Len(N_SAMPLES_SPACING) * Len(sampling_seeds) * n_seeds

FileKeys(f) == [i \in 1..Len(f) |-> f[i].key]

\* C24: the three files hold the records of the completed triples and no
\* other: all records of the tables between two triples, and after a unit
\* that crashed all but the records of that unit; the same triples in the
\* same order in the three files.
C24_FilesHoldCompletedTriples ==
    /\ csv.complexity = df_all_complexity
    /\ csv.error_metrics = SubSeq(df_all_metrics, 1, Len(df_all_complexity))
    /\ csv.expressions = SubSeq(df_all_expr, 1, Len(df_all_complexity))
    /\ pc # "crashed" =>
        /\ csv.error_metrics = df_all_metrics
        /\ csv.expressions = df_all_expr
    /\ FileKeys(csv.complexity) = FileKeys(csv.expressions)
    /\ FileKeys(csv.complexity) = csv.error_metrics

\* C24 witness: the sweep stopped inside its third unit, and the files hold
\* the two completed ones.
C24_InterruptedAfterTwo ==
    /\ pc = "crashed"
    /\ Len(csv.complexity) = 2
    /\ Len(csv.error_metrics) = 2
    /\ Len(csv.expressions) = 2
    /\ Len(df_all_metrics) = 3

-----------------------------------------------------------------------------
(* The try block of a unit, run_symbolic_explanation.py lines 207-220 *)

\* Lines 207-212 for a model s: the call of convert_symb inside try, and the
\* bare except that puts the empty string in place of whatever was raised.
\* The engine's failure on the pathological program is given with the fit.
conv_except(s) ==
    IF s = fitted("pathological") THEN EmptyString
    ELSE IF convert_symb(s, Some(2), Some(3)).tag = "raise" THEN EmptyString
    ELSE convert_symb(s, Some(2), Some(3))

\* Lines 207-217: the conversion of a unit and its handler.
TryConvert ==
    /\ pc = "idle"
    /\ ret.tag = "none"
    /\ \E s \in Models \cup {fitted(k) : k \in FitKinds} :
        /\ symb' = s
        /\ ret' = conv_except(s)
        /\ steps' = Steps(s, Some(2), Some(3))
    /\ n_dim' = Some(2)
    /\ n_decimals' = Some(3)
    /\ UNCHANGED <<again, expVars, sweepVars, otherVars>>

\* Line 220 on a converted expression or raw string.
CountOperations ==
    /\ pc = "idle"
    /\ ret.tag # "none"
    /\ ~count_ops(ret).raised
    /\ pc' = "counted"
    /\ UNCHANGED <<convVars, expVars, otherVars, env, i_n, i_seed, i_symb,
                   df_all_metrics, df_all_expr, df_all_complexity, csv>>

\* Line 220 on the empty string: count_ops raises, and the script ends.
CountOperationsRaises ==
    /\ pc = "idle"
    /\ ret.tag # "none"
    /\ count_ops(ret).raised
    /\ pc' = "crashed"
    /\ UNCHANGED <<convVars, expVars, otherVars, env, i_n, i_seed, i_symb,
                   df_all_metrics, df_all_expr, df_all_complexity, csv>>

\* Line 179: the next unit.
NextUnit ==
    /\ pc = "counted"
    /\ pc' = "idle"
    /\ symb' = NoModel
    /\ n_dim' = None
    /\ n_decimals' = None
    /\ ret' = NoReturn
    /\ steps' = NoSteps
    /\ UNCHANGED <<again, expVars, otherVars, env, i_n, i_seed, i_symb,
                   df_all_metrics, df_all_expr, df_all_complexity, csv>>

NextHandler == TryConvert \/ CountOperations \/ CountOperationsRaises \/ NextUnit

InitHandler == ConvInit /\ ExpIdle /\ SweepIdle /\ OtherIdle

SpecHandler == InitHandler /\ [][NextHandler]_vars

C25_UnknownModelGetsPlaceholder ==
    /\ symb.kind = "LinearRegression"
    /\ convert_symb(symb, n_dim, n_decimals) = Raised("Unknown symbolic model")
    /\ ret = EmptyString
    /\ pc = "crashed"

-----------------------------------------------------------------------------
(* Repeated calls of convert_symb on one fitted model, utils.py lines 47-105 *)

\* Most calls on the model.
MaxCalls == 2

\* The fitted models held by a caller: of each kind, short ones.
HeldModels ==
    {Model(SymbolicRegressor, g, <<>>) : g \in Affine({Float(1500)}, {Float(12345)}, {X(0)})}
    \cup {Model(SymbolicMetaModelWrapper, Node("add", <<XBracketed(0), Float(12345)>>), <<>>)}
    \cup {Model(SymbolicPursuitModelWrapper, Node("add", <<P(1), Float(12345)>>), <<pr>>) :
            pr \in Projections}
    \cup {Model("LinearRegression", X(0), <<>>)}

Call(s, nd, ndec) ==
    [symb |-> s, n_dim |-> nd, n_decimals |-> ndec, ret |-> convert_symb(s, nd, ndec)]

\* A call that uses up the projections it substitutes.
CallAgainConsuming ==
    /\ held # NoModel
    /\ Len(calls) < MaxCalls
    /\ \E nd \in Dims, ndec \in DecimalsArgs :
        calls' = Append(calls, Call(held, nd, ndec))
    /\ held' = [held EXCEPT !.projections = <<>>]
    /\ UNCHANGED <<convVars, expVars, sweepVars, fsVars, elbowVars, scoreVars,
                   aggVars, plotVars, hpoVars>>

\* Lines 63-105: one more call on the held model.  The function reads
\* str(symb._program), symb.expression() and the projections, and assigns
\* only to its locals symb_str, converter, symb_conv, x, X0 and proj.
CallAgain ==
    /\ held # NoModel
    /\ Len(calls) < MaxCalls
    /\ \E nd \in Dims, ndec \in DecimalsArgs :
        calls' = Append(calls, Call(held, nd, ndec))
    /\ held' = held
    /\ UNCHANGED <<convVars, expVars, sweepVars, fsVars, elbowVars, scoreVars,
                   aggVars, plotVars, hpoVars>>

\* The caller lets go of the model and takes up another one.
NextModel ==
    /\ Len(calls) = MaxCalls
    /\ held' \in HeldModels
    /\ calls' = <<>>
    /\ UNCHANGED <<convVars, expVars, sweepVars, fsVars, elbowVars, scoreVars,
                   aggVars, plotVars, hpoVars>>

NextRepeat == CallAgain \/ NextModel

InitRepeat ==
    /\ held \in HeldModels
    /\ calls = <<>>
    /\ ConvIdle /\ ExpIdle /\ SweepIdle /\ FsIdle /\ ElbowIdle /\ ScoresIdle
    /\ AggIdle /\ PlotIdle /\ HpoIdle

SpecRepeat == InitRepeat /\ [][NextRepeat]_vars

-----------------------------------------------------------------------------
(* The accumulated test error of run_2d_error_plot.py, lines 111-171 *)

\* Lines 113-115: the keys of error_test when evaluate_on_surrogate is set.
error_keys == {"SR (BO-GP)", "GP (BO)"}

\* Most (sampling seed, regression seed) units of one run.
MaxUnits == 3

\* np.abs(y_test - prediction) of a unit at one grid point, in hundredths.
AbsErrors == {0, 1, 3}

\* Lines 111-115.
PlotInit ==
    /\ n_seeds_total = 0
    /\ error_test = [key \in error_keys |-> QInt(0)]
    /\ unit_errors = <<>>

\* Lines 128-171, one (sampling seed, regression seed) unit: the counter is
\* incremented, the unit's absolute error is added to each key, and each key
\* is divided by the counter, inside the loop.
ForSymbSeed ==
    /\ error_test # <<>>
    /\ n_seeds_total < MaxUnits
    /\ n_seeds_total' = n_seeds_total + 1
    /\ \E e \in [error_keys -> AbsErrors] :
        /\ unit_errors' = Append(unit_errors, e)
        /\ error_test' =
            [key \in error_keys |->
                QDiv(QAdd(error_test[key], QInt(e[key])), QInt(n_seeds_total'))]
    /\ UNCHANGED <<convVars, expVars, sweepVars, fsVars, elbowVars, scoreVars,
                   aggVars, repeatVars, hpoVars>>

\* Both loops are exhausted (lines 120, 128), and the next run starts with
\* the initialisation of lines 111-115.
NextRun ==
    /\ error_test # <<>>
    /\ n_seeds_total >= 1
    /\ n_seeds_total' = 0
    /\ error_test' = [key \in error_keys |-> QInt(0)]
    /\ unit_errors' = <<>>
    /\ UNCHANGED <<convVars, expVars, sweepVars, fsVars, elbowVars, scoreVars,
                   aggVars, repeatVars, hpoVars>>

NextErrorPlot == ForSymbSeed \/ NextRun

InitErrorPlot ==
    /\ PlotInit
    /\ ConvIdle /\ ExpIdle /\ SweepIdle /\ FsIdle /\ ElbowIdle /\ ScoresIdle
    /\ AggIdle /\ RepeatIdle /\ HpoIdle

SpecErrorPlot == InitErrorPlot /\ [][NextErrorPlot]_vars

\* The sum of the units' absolute errors for a key.
RECURSIVE TotalError(_, _)
TotalError(key, k) == IF k = 0 THEN 0 ELSE unit_errors[k][key] + TotalError(key, k - 1)

\* C27 as stated: after k >= 1 units error_test[key] is the arithmetic mean
\* of the k absolute errors of the units, for every key.
C27_MeanAfterEveryUnit ==
    (error_test # <<>> /\ n_seeds_total >= 1) =>
        \A key \in error_keys :
            error_test[key]
                = QDiv(QInt(TotalError(key, n_seeds_total)), QInt(n_seeds_total))

\* C27, what the code does: the third unit adds its error to the mean of the
\* first two and divides by three; three units with the error 0.03 leave
\* 0.02 in error_test.
C27_DividedSumOfMeans ==
    /\ error_test # <<>>
    /\ n_seeds_total = 3
    /\ \A k \in 1..3 : unit_errors[k]["GP (BO)"] = 3
    /\ error_test["GP (BO)"] = QInt(2)

-----------------------------------------------------------------------------
(* get_hpo_test_data, utils.py lines 203-276 *)

\* Most optimized parameters of a call.
MaxParams == 3

\* A hyperparameter on a linear scale: its bounds, and whether it is a
\* UniformIntegerHyperparameter.
Param(lo, hi, int) == [lower |-> lo, upper |-> hi, integer |-> int]
Params == {Param(0, 4, TRUE), Param(1, 3, TRUE), Param(0, 1, FALSE)}
ParamLists == UNION {[1..n -> Params] : n \in 0..MaxParams}
TestSamples == {1, 4, 9}

\* Lines 205-211.
n_test_steps(optimized_parameters, n_test_samples) ==
    IF Len(optimized_parameters) = 2 THEN Some(ISqrt(n_test_samples))
    ELSE IF Len(optimized_parameters) = 1 THEN Some(n_test_samples)
    ELSE None

\* np.linspace(start, stop, num).
linspace(start, stop, num) ==
    [j \in 1..num |->
        IF num = 1 THEN start
        ELSE QAdd(start, QDiv(QMul(QInt(j - 1), QSub(stop, start)), QInt(num - 1)))]

\* Lines 224-228: the midpoints of n equal cells between the bounds.
param_space(p, n) ==
    LET half == QDiv(QMul(QFin(FALSE, 1, 2), QInt(p.upper - p.lower)), QInt(n))
    IN  linspace(QAdd(QInt(p.lower), half), QSub(QInt(p.upper), half), n)

\* int(v) of a non-negative value.
Trunc(q) == q.num \div q.den

\* np.unique of a set of integers: ascending.
RECURSIVE unique(_)
unique(S) ==
    IF S = {} THEN <<>>
    ELSE LET m == CHOOSE a \in S : \A b \in S : a <= b
         IN  <<QInt(m)>> \o unique(S \ {m})

\* Lines 229-235: the grid of one parameter.
X_test_dimension(p, n) ==
    IF p.integer
        THEN unique({Trunc(param_space(p, n)[j]) : j \in 1..n})
    ELSE param_space(p, n)

\* classifier.train(config, seed=0): the cost of a configuration.
train(conf) == [cost_of |-> conf]

ReturnedArrays(xt, yt, t, out) ==
    [tag |-> "returned", X_test |-> xt, y_test |-> yt, trained |-> t, printed |-> out, msg |-> ""]

\* Lines 203-276.  With neither one nor two parameters n_test_steps is None,
\* and the division of line 225 raises a TypeError in the first pass of the
\* loop of line 212; only an empty parameter list reaches line 271.
get_hpo_test_data(optimized_parameters, n_test_samples) ==
    LET steps_ == n_test_steps(optimized_parameters, n_test_samples)
        dims == [i \in 1..Len(optimized_parameters) |->
                    X_test_dimension(optimized_parameters[i], steps_[1])]
    IN  IF steps_ = None /\ Len(optimized_parameters) > 0
            THEN [NoHpo EXCEPT !.tag = "raised", !.msg = "TypeError"]
        ELSE IF Len(optimized_parameters) = 1
            THEN ReturnedArrays(Some(<<dims[1]>>),
                                Some([n \in 1..Len(dims[1]) |-> train(<<dims[1][n]>>)]),
                          Len(dims[1]), <<>>)
        ELSE IF Len(optimized_parameters) = 2
            THEN ReturnedArrays(Some(<<[n \in 1..Len(dims[2]) |-> dims[1]],
                                 [n \in 1..Len(dims[2]) |->
                                     [m \in 1..Len(dims[1]) |-> dims[2][n]]]>>),
                          Some([n \in 1..Len(dims[2]) |->
                                   [m \in 1..Len(dims[1]) |-> train(<<dims[1][m], dims[2][n]>>)]]),
                          Len(dims[2]) * Len(dims[1]), <<>>)
        ELSE ReturnedArrays(None, None, 0, <<"Not yet supported.">>)

Call_get_hpo_test_data ==
    /\ hpo_out.tag = "none"
    /\ \E ps \in ParamLists, n \in TestSamples :
        /\ hpo_in' = <<[optimized_parameters |-> ps, n_test_samples |-> n]>>
        /\ hpo_out' = get_hpo_test_data(ps, n)
    /\ UNCHANGED <<convVars, expVars, sweepVars, fsVars, elbowVars, scoreVars,
                   aggVars, repeatVars, plotVars>>

\* The caller is done with the result.
Return_get_hpo_test_data ==
    /\ hpo_out.tag # "none"
    /\ hpo_in' = <<>>
    /\ hpo_out' = NoHpo
    /\ UNCHANGED <<convVars, expVars, sweepVars, fsVars, elbowVars, scoreVars,
                   aggVars, repeatVars, plotVars>>

NextTestData == Call_get_hpo_test_data \/ Return_get_hpo_test_data

InitTestData ==
    /\ HpoIdle
    /\ ConvIdle /\ ExpIdle /\ SweepIdle /\ FsIdle /\ ElbowIdle /\ ScoresIdle
    /\ AggIdle /\ RepeatIdle /\ PlotIdle

SpecTestData == InitTestData /\ [][NextTestData]_vars

\* C30 as stated: a call with neither one nor two parameters prints 'Not yet
\* supported.' and returns (None, None); it raises nothing and trains
\* nothing.
C30_UnsupportedReturnsNone ==
    (hpo_out.tag # "none" /\ Len(hpo_in[1].optimized_parameters) \notin {1, 2}) =>
        /\ hpo_out.tag = "returned"
        /\ hpo_out.X_test = None
        /\ hpo_out.y_test = None
        /\ hpo_out.printed = <<"Not yet supported.">>
        /\ hpo_out.trained = 0

\* C30, what the code does with three parameters: a TypeError, and nothing
\* printed.
C30_ThreeParametersRaise ==
    /\ hpo_out.tag = "raised"
    /\ Len(hpo_in[1].optimized_parameters) = 3
    /\ hpo_out.printed = <<>>

\* C30, the supported calls: arrays are returned and the classifier is
\* trained once for each point of the grid.
C30_TrainedOncePerGridPoint ==
    (hpo_out.tag # "none" /\ Len(hpo_in[1].optimized_parameters) \in {1, 2}) =>
        /\ hpo_out.tag = "returned"
        /\ hpo_out.X_test # None
        /\ hpo_out.y_test # None
        /\ hpo_out.trained
            = IF Len(hpo_in[1].optimized_parameters) = 1
                THEN Len(hpo_out.X_test[1][1])
              ELSE Len(hpo_out.X_test[1][1]) * Len(hpo_out.X_test[1][1][1])

=============================================================================
